---- MODULE Spec2Model ----
(***************************************************************************)
(* Model of the mock-data validator (validate.mjs, listed in               *)
(* src/docs/versioning.md lines 295-527) and of the overlay validator      *)
(* (src/packages/mock-overlays/validate.mjs).  Each validator is a batch   *)
(* script: it loads dataset.json and the table files, runs its checks one  *)
(* after the other, each check ending in report(), and exits with a        *)
(* status.  The inputs (the JSON files) are drawn by Init from bounded     *)
(* sets; every check is one action.  A run is a run of one of the two      *)
(* scripts: pc tells which.  The overlay engine (materialization of an     *)
(* overlay stack over base tables) has no source in the repository; it is  *)
(* modelled from the specification and runs under its own specification,   *)
(* Materialization.                                                        *)
(***************************************************************************)
EXTENDS Integers, Sequences, FiniteSets, TLC

VARIABLES
    dataset,    \* parsed dataset.json: [tables, relations]
    tables,     \* the loaded table files, in readdir order
    checksums,  \* checksums.json: [exists, keys]
    overlayDir, \* the files of the overlay directory, in readdir order
    pc,         \* position of the script
    passed,     \* const passed = []
    failed,     \* const failed = []
    stdout,     \* the lines report() and the summary print
    exitCode,   \* argument of process.exit, -1 while running
    stack,      \* the overlay stack handed to the overlay engine
    cursor,     \* the position in the stack of the overlay to apply next
    materialized, \* the table set the overlay engine is building
    matErrors,  \* the insufficiency errors the overlay engine recorded
    result      \* what the overlay engine returned

\* the state of the overlay engine
engine == <<stack, cursor, materialized, matErrors, result>>

vars ==
    <<dataset, tables, checksums, overlayDir, pc, passed, failed, stdout, exitCode, engine>>

(***************************************************************************)
(* Bounds of the enumerated inputs.                                        *)
(***************************************************************************)
MaxRows == 2        \* rows per table in the schema and foreign-key inputs
MaxIdRows == 3      \* rows per table in the id inputs
MaxListed == 2      \* entries of dataset.tables
MaxRels == 1        \* entries of dataset.relations in the foreign-key inputs
MaxOverlays == 2    \* files of the overlay directory
MaxValues == 2      \* entries of an overlay's values
MaxBaseRows == 2    \* rows of a base table under the overlays
MaxErrors == 12     \* errors of one check in the inputs with many errors
MaxUsers == 3       \* rows of the users table handed to the overlay engine
MaxStack == 2       \* overlays of a stack
MaxStackValues == 3 \* values of an overlay of a stack

(***************************************************************************)
(* JSON values.  A value is a record [t, s]: t is the JavaScript type and  *)
(* s the text a template literal `${v}` renders for it.  An absent         *)
(* property reads as Undefined.                                            *)
(***************************************************************************)
Str(s) == [t |-> "string", s |-> s]
Num(s) == [t |-> "number", s |-> s]
Null == [t |-> "null", s |-> "null"]
Undefined == [t |-> "undefined", s |-> "undefined"]

\* row[k]: the property, or undefined when the row has none
Get(row, k) == IF k \in DOMAIN row THEN row[k] ELSE Undefined

\* JavaScript truthiness of a value: null, undefined, "" and 0 are falsy
Truthy(v) ==
    /\ v.t \notin {"null", "undefined"}
    /\ ~(v.t = "string" /\ v.s = "")
    /\ ~(v.t = "number" /\ v.s = "0")

\* `${v}`
ToStr(v) == v.s

\* mutant: !value
IsFalsy(v) == ~Truthy(v)

\* mutant: value === null
IsNullOnly(v) == v.t = "null"

\* value === null || value === undefined
IsNullish(v) == v.t \in {"null", "undefined"}

(***************************************************************************)
(* Strings.                                                                *)
(***************************************************************************)
\* s.includes(c) for a one-character c
Includes(s, c) == \E i \in 1..Len(s) : SubSeq(s, i, i) = c

\* s.endsWith(c) for a one-character c
EndsWith(s, c) == Len(s) > 0 /\ SubSeq(s, Len(s), Len(s)) = c

\* index of the first occurrence of sub in s, 0 when there is none
IndexOf(s, sub) ==
    LET hits == {i \in 1..(Len(s) - Len(sub) + 1) : SubSeq(s, i, i + Len(sub) - 1) = sub}
    IN IF hits = {} THEN 0 ELSE CHOOSE i \in hits : \A j \in hits : i <= j

\* file.replace('.json', ''): the first occurrence only
StripJson(file) ==
    LET i == IndexOf(file, ".json")
    IN IF i = 0 THEN file
       ELSE SubSeq(file, 1, i - 1) \o SubSeq(file, i + 5, Len(file))

\* const [a, b] = s.split('.'): the first two segments; b is "undefined"
\* when s holds no dot
SplitDot(s) ==
    LET i == IndexOf(s, ".")
        rest == SubSeq(s, i + 1, Len(s))
        j == IndexOf(rest, ".")
    IN IF i = 0 THEN <<s, "undefined">>
       ELSE <<SubSeq(s, 1, i - 1),
              IF j = 0 THEN rest ELSE SubSeq(rest, 1, j - 1)>>

(***************************************************************************)
(* Tables.  A loaded table is [file, name, meta, schema, rows]: meta is    *)
(* "none" (no $meta), "noschema" ($meta without schema) or "schema";       *)
(* schema is the sequence of [field, tag] in key order; a row is a         *)
(* function from the field names it has to values.                         *)
(***************************************************************************)
\* tables[name]: the index of the loaded table, 0 when not loaded
Lookup(tbls, name) ==
    LET hits == {i \in 1..Len(tbls) : tbls[i].name = name}
    IN IF hits = {} THEN 0 ELSE CHOOSE i \in hits : \A j \in hits : i <= j

\* table.$meta?.schema || {}
SchemaOf(table) == IF table.meta = "schema" THEN table.schema ELSE <<>>

\* field in schema
HasKey(schema, f) == \E i \in 1..Len(schema) : schema[i].field = f

\* schema[field] || ''
TagOf(schema, f) ==
    IF HasKey(schema, f)
    THEN (CHOOSE e \in {schema[i] : i \in 1..Len(schema)} : e.field = f).tag
    ELSE ""

(***************************************************************************)
(* An error is the message the check pushes, with a history annotation     *)
(* that the program does not hold: the relation (index in                  *)
(* dataset.relations), the table and the row (index in table.rows,         *)
(* counted from 1) the message was pushed for; 0 or "" when there is none. *)
(***************************************************************************)
Err(msg, rel, table, row) == [msg |-> msg, rel |-> rel, table |-> table, row |-> row]

\* the sequences of ss, one after the other
\* mutant: the sequences of ss, the last one first
RECURSIVE ConcatBackwards(_)
ConcatBackwards(ss) == IF ss = <<>> THEN <<>> ELSE ConcatBackwards(Tail(ss)) \o Head(ss)

RECURSIVE Concat(_)
Concat(ss) == IF ss = <<>> THEN <<>> ELSE Head(ss) \o Concat(Tail(ss))

(***************************************************************************)
(* Check 1: Dataset consistency.                                           *)
(***************************************************************************)
\* mutant: the loop over the loaded tables is missing
DatasetConsistencyListedOnly(ds, tbls) ==
    Concat([k \in 1..Len(ds.tables) |->
        IF Lookup(tbls, ds.tables[k]) = 0
        THEN <<Err("Table \"" \o ds.tables[k] \o "\" listed in dataset.json but no file found",
                   0, ds.tables[k], 0)>>
        ELSE <<>>])

DatasetConsistency(ds, tbls) ==
    Concat([k \in 1..Len(ds.tables) |->
        IF Lookup(tbls, ds.tables[k]) = 0
        THEN <<Err("Table \"" \o ds.tables[k] \o "\" listed in dataset.json but no file found",
                   0, ds.tables[k], 0)>>
        ELSE <<>>])
    \o
    Concat([t \in 1..Len(tbls) |->
        IF ~(\E k \in 1..Len(ds.tables) : ds.tables[k] = tbls[t].name)
        THEN <<Err("File " \o tbls[t].name \o ".json exists but not listed in dataset.json",
                   0, tbls[t].name, 0)>>
        ELSE <<>>])

(***************************************************************************)
(* Check 2: Schema completeness.                                           *)
(***************************************************************************)
\* (table.$meta.schema[field] || '').includes('?')
IsNullable(schema, field) == Includes(TagOf(schema, field), "?")

\* `${row.id || i}`, i counted from 0 as in the code
RowRef(row, i) ==
    IF Truthy(Get(row, "id")) THEN ToStr(Get(row, "id")) ELSE ToString(i - 1)

\* the body of the loop over the rows, for row i
SchemaRowErrors(table, i) ==
    LET schema == SchemaOf(table)
        row == table.rows[i]
    IN Concat([k \in 1..Len(schema) |->
        IF schema[k].field \notin DOMAIN row /\ ~IsNullable(schema, schema[k].field)
        THEN <<Err(table.name \o " row " \o RowRef(row, i) \o ": missing \""
                       \o schema[k].field \o "\"",
                   0, table.name, i)>>
        ELSE <<>>])

\* the body of the loop over the tables
SchemaTableErrors(table) ==
    IF Len(SchemaOf(table)) = 0
    THEN <<Err(table.name \o ": no schema in $meta", 0, table.name, 0)>>
    ELSE Concat([i \in 1..Len(table.rows) |-> SchemaRowErrors(table, i)])

\* mutant: break for continue after a table without schema
RECURSIVE SchemaCompletenessBreak(_)
SchemaCompletenessBreak(tbls) ==
    IF tbls = <<>> THEN <<>>
    ELSE IF Len(SchemaOf(Head(tbls))) = 0 THEN SchemaTableErrors(Head(tbls))
    ELSE SchemaTableErrors(Head(tbls)) \o SchemaCompletenessBreak(Tail(tbls))

SchemaCompleteness(tbls) ==
    Concat([t \in 1..Len(tbls) |-> SchemaTableErrors(tbls[t])])

(***************************************************************************)
(* Check 3: ID uniqueness.                                                 *)
(***************************************************************************)
\* if (!row.id)
LacksId(row) == ~Truthy(Get(row, "id"))

\* the loop over table.rows from row i on, ids being the Set built so far
RECURSIVE IdLoop(_, _, _)
IdLoop(table, i, ids) ==
    IF i > Len(table.rows) THEN <<>>
    ELSE LET row == table.rows[i]
         IN IF LacksId(row)
            THEN <<Err(table.name \o ": row without \"id\" field", 0, table.name, i)>>
                 \o IdLoop(table, i + 1, ids)
            ELSE (IF row["id"] \in ids
                  THEN <<Err(table.name \o ": duplicate \"" \o ToStr(row["id"]) \o "\"",
                             0, table.name, i)>>
                  ELSE <<>>)
                 \o IdLoop(table, i + 1, ids \cup {row["id"]})

IdTableErrors(table) == IdLoop(table, 1, {})

IdUniqueness(tbls) ==
    Concat([t \in 1..Len(tbls) |-> IdTableErrors(tbls[t])])

(***************************************************************************)
(* Check 4: Foreign key integrity.  A relation is                          *)
(* [from, to, hasWhen, when, nullable]: from and to are the dotted         *)
(* strings, when the function of the conditions.                           *)
(***************************************************************************)
\* mutant: some() for every()
WhenMatchesAny(rel, row) == \E k \in DOMAIN rel.when : Get(row, k) = rel.when[k]

\* Object.entries(rel.when).every(([k, v]) => row[k] === v)
WhenMatches(rel, row) == \A k \in DOMAIN rel.when : Get(row, k) = rel.when[k]

\* if (rel.when) { ... if (!matches) continue }
Skipped(rel, row) == rel.hasWhen /\ ~WhenMatches(rel, row)

\* new Set(tables[toTable].rows.map(r => r[toField]))
ValidIds(table, toField) == {Get(table.rows[i], toField) : i \in 1..Len(table.rows)}

\* the body of the loop over the rows of fromTable, for relation r and row i
FkRowErrors(rel, r, from, to, i) ==
    LET fromTable == SplitDot(rel.from)[1]
        fromField == SplitDot(rel.from)[2]
        toTable == SplitDot(rel.to)[1]
        toField == SplitDot(rel.to)[2]
        row == from.rows[i]
        value == Get(row, fromField)
    IN IF Skipped(rel, row) THEN <<>>
       ELSE IF IsNullish(value)
       THEN (IF ~rel.nullable
             THEN <<Err(fromTable \o "." \o fromField \o " row " \o ToStr(Get(row, "id"))
                            \o ": null but not nullable",
                        r, fromTable, i)>>
             ELSE <<>>)
       ELSE IF value \notin ValidIds(to, toField)
       THEN <<Err(fromTable \o "." \o fromField \o " row " \o ToStr(Get(row, "id"))
                      \o ": \"" \o ToStr(value) \o "\" not found in " \o toTable,
                  r, fromTable, i)>>
       ELSE <<>>

\* mutant: each table that is not loaded gets its own error
FkRelErrorsBothSides(rel, r, tbls) ==
    LET fromTable == SplitDot(rel.from)[1]
        toTable == SplitDot(rel.to)[1]
        f == Lookup(tbls, fromTable)
        t == Lookup(tbls, toTable)
        notLoaded(name) ==
            <<Err("Relation " \o rel.from \o " -> " \o rel.to \o ": table \""
                      \o name \o "\" not loaded",
                  r, name, 0)>>
    IN IF f = 0 \/ t = 0
       THEN (IF f = 0 THEN notLoaded(fromTable) ELSE <<>>)
                \o (IF t = 0 THEN notLoaded(toTable) ELSE <<>>)
       ELSE Concat([i \in 1..Len(tbls[f].rows) |->
                FkRowErrors(rel, r, tbls[f], tbls[t], i)])

\* the body of the loop over dataset.relations, for relation r
FkRelErrors(rel, r, tbls) ==
    LET fromTable == SplitDot(rel.from)[1]
        toTable == SplitDot(rel.to)[1]
        f == Lookup(tbls, fromTable)
        t == Lookup(tbls, toTable)
    IN IF f = 0
       THEN <<Err("Relation " \o rel.from \o " -> " \o rel.to \o ": table \""
                      \o fromTable \o "\" not loaded",
                  r, fromTable, 0)>>
       ELSE IF t = 0
       THEN <<Err("Relation " \o rel.from \o " -> " \o rel.to \o ": table \""
                      \o toTable \o "\" not loaded",
                  r, toTable, 0)>>
       ELSE Concat([i \in 1..Len(tbls[f].rows) |->
                FkRowErrors(rel, r, tbls[f], tbls[t], i)])

ForeignKeyIntegrity(ds, tbls) ==
    Concat([r \in 1..Len(ds.relations) |-> FkRelErrors(ds.relations[r], r, tbls)])

(***************************************************************************)
(* Check 5: Relations consistency.                                         *)
(***************************************************************************)
\* !schema[field]: the field is no key, or its tag is falsy
NotInSchema(schema, field) == ~HasKey(schema, field) \/ TagOf(schema, field) = ""

\* one side of a relation: if (tables[t]) { if (!schema[field]) errors.push }
RelSideErrors(tbls, r, table, field) ==
    LET t == Lookup(tbls, table)
    IN IF t # 0 /\ NotInSchema(SchemaOf(tbls[t]), field)
       THEN <<Err("Relation field \"" \o field \o "\" not in " \o table \o " schema",
                  r, table, 0)>>
       ELSE <<>>

RelationsConsistency(ds, tbls) ==
    Concat([r \in 1..Len(ds.relations) |->
        RelSideErrors(tbls, r, SplitDot(ds.relations[r].from)[1],
                      SplitDot(ds.relations[r].from)[2])
        \o RelSideErrors(tbls, r, SplitDot(ds.relations[r].to)[1],
                         SplitDot(ds.relations[r].to)[2])])

(***************************************************************************)
(* Check 6: Checksums.  checksums is [exists, keys]: whether               *)
(* checksums.json exists, and its keys in order.                           *)
(***************************************************************************)
\* const tableFiles = readdirSync(dataDir).filter(...)
TableFiles(tbls) == [t \in 1..Len(tbls) |-> tbls[t].file]

\* mutant: only the table files are looked up, not the entries
ChecksumsOneWay(cs, tbls) ==
    IF ~cs.exists THEN <<>>
    ELSE Concat([t \in 1..Len(tbls) |->
             IF ~(\E k \in 1..Len(cs.keys) : cs.keys[k] = tbls[t].file)
             THEN <<Err("checksums.json missing entry for " \o tbls[t].file,
                        0, tbls[t].name, 0)>>
             ELSE <<>>])

Checksums(cs, tbls) ==
    IF ~cs.exists THEN <<>>
    ELSE Concat([t \in 1..Len(tbls) |->
             IF ~(\E k \in 1..Len(cs.keys) : cs.keys[k] = tbls[t].file)
             THEN <<Err("checksums.json missing entry for " \o tbls[t].file,
                        0, tbls[t].name, 0)>>
             ELSE <<>>])
         \o
         Concat([k \in 1..Len(cs.keys) |->
             IF ~(\E t \in 1..Len(tbls) : tbls[t].file = cs.keys[k])
             THEN <<Err("checksums.json has entry for " \o cs.keys[k]
                            \o " but file not found",
                        0, "", 0)>>
             ELSE <<>>])

(***************************************************************************)
(* report(name, errors) and the summary.  The lines are printed without    *)
(* their colour escapes; OK and FAIL stand for the check mark and the      *)
(* cross, -> for the arrow.                                                *)
(***************************************************************************)
DisplayLimit == 10

\* errors.slice(0, 10), printed one per line
RECURSIVE ErrorLines(_, _)
ErrorLines(errors, n) ==
    IF n = 0 \/ errors = <<>> THEN <<>>
    ELSE <<"    -> " \o Head(errors).msg>> \o ErrorLines(Tail(errors), n - 1)

\* mutant: the remainder line is printed from the tenth error on
ReportLinesFromLimit(name, errors) ==
    IF Len(errors) = 0
    THEN <<"  OK " \o name>>
    ELSE <<"  FAIL " \o name>>
         \o ErrorLines(errors, DisplayLimit)
         \o (IF Len(errors) >= DisplayLimit
             THEN <<"    ... and " \o ToString(Len(errors) - DisplayLimit) \o " more">>
             ELSE <<>>)

ReportLines(name, errors) ==
    IF Len(errors) = 0
    THEN <<"  OK " \o name>>
    ELSE <<"  FAIL " \o name>>
         \o ErrorLines(errors, DisplayLimit)
         \o (IF Len(errors) > DisplayLimit
             THEN <<"    ... and " \o ToString(Len(errors) - DisplayLimit) \o " more">>
             ELSE <<>>)

\* mutant: the check is recorded as passed whatever its errors
ReportPassedAlways(name, errors) == Append(passed, name)

ReportPassed(name, errors) ==
    IF Len(errors) = 0 THEN Append(passed, name) ELSE passed

ReportFailed(name, errors) ==
    IF Len(errors) = 0 THEN failed
    ELSE Append(failed, [check |-> name, errors |-> errors])

\* a check: its block computes errors and calls report(name, errors)
Report(name, errors, next) ==
    /\ passed' = ReportPassed(name, errors)
    /\ failed' = ReportFailed(name, errors)
    /\ stdout' = stdout \o ReportLines(name, errors)
    /\ pc' = next
    /\ UNCHANGED <<dataset, tables, checksums, overlayDir, exitCode, engine>>

Check1 ==
    /\ pc = "check1"
    /\ Report("Dataset consistency", DatasetConsistency(dataset, tables), "check2")

Check2 ==
    /\ pc = "check2"
    /\ Report("Schema completeness", SchemaCompleteness(tables), "check3")

Check3 ==
    /\ pc = "check3"
    /\ Report("ID uniqueness", IdUniqueness(tables), "check4")

Check4 ==
    /\ pc = "check4"
    /\ Report("Foreign key integrity", ForeignKeyIntegrity(dataset, tables), "check5")

Check5 ==
    /\ pc = "check5"
    /\ Report("Relations consistency", RelationsConsistency(dataset, tables), "check6")

Check6 ==
    /\ pc = "check6"
    /\ Report("Checksums", Checksums(checksums, tables), "summary")

\* process.exit(failCount > 0 ? 1 : 0)
ExitStatus(failCount) == IF failCount > 0 THEN 1 ELSE 0

Summary ==
    /\ pc = "summary"
    /\ LET total == Len(passed) + Len(failed)
           failCount == Len(failed)
       IN /\ stdout' = stdout \o
                <<"",
                  IF failCount = 0
                  THEN "All " \o ToString(total) \o " checks passed."
                  ELSE ToString(failCount) \o "/" \o ToString(total) \o " checks failed.",
                  "">>
          /\ exitCode' = ExitStatus(failCount)
    /\ pc' = "done"
    /\ UNCHANGED <<dataset, tables, checksums, overlayDir, passed, failed, engine>>

(***************************************************************************)
(* The overlay validator.  A directory entry is [filename, data]; data is  *)
(* the parsed JSON, [meta, values]: meta the function of the $meta keys    *)
(* (no key at all when the file has no $meta: $meta?.k reads undefined     *)
(* either way) and values the `values` property.  An array value is        *)
(* [t |-> "array", items |-> <<...>>].                                     *)
(***************************************************************************)
Arr(items) == [t |-> "array", items |-> items]

\* Array.isArray(v)
IsArray(v) == v.t = "array"

\* f.endsWith(ext)
FileEndsWith(f, ext) ==
    Len(f) >= Len(ext) /\ SubSeq(f, Len(f) - Len(ext) + 1, Len(f)) = ext

\* mutant: the extension is kept
BasenameKeepsExt(f, ext) == f

\* basename(f, ext) of a name without directory part
Basename(f, ext) ==
    IF FileEndsWith(f, ext) /\ f # ext THEN SubSeq(f, 1, Len(f) - Len(ext)) ELSE f

\* readdirSync(__dirname).filter(...).map(...), each file with its parsed data
OverlayFiles(dir) ==
    LET kept == SelectSeq(dir, LAMBDA e :
                    FileEndsWith(e.filename, ".json") /\ e.filename # "package.json")
    IN [k \in 1..Len(kept) |->
           [filename |-> kept[k].filename,
            name |-> Basename(kept[k].filename, ".json"),
            data |-> kept[k].data]]

\* dataset.json could not be read
DatasetMissing(ds) == "missing" \in DOMAIN ds

\* baseTables: the listed tables whose file could be read, in the order
\* their names were first inserted
BaseTables(ds, tbls) ==
    IF DatasetMissing(ds) THEN <<>>
    ELSE LET first == {k \in 1..Len(ds.tables) :
                          /\ Lookup(tbls, ds.tables[k]) # 0
                          /\ \A j \in 1..(k - 1) : ds.tables[j] # ds.tables[k]}
             RECURSIVE From(_)
             From(k) ==
                 IF k > Len(ds.tables) THEN <<>>
                 ELSE (IF k \in first
                       THEN <<tbls[Lookup(tbls, ds.tables[k])]>>
                       ELSE <<>>) \o From(k + 1)
         IN From(1)

(***************************************************************************)
(* An overlay error is the message with a history annotation: the overlay  *)
(* (index in overlays), the base table and the field it was pushed for;    *)
(* 0 or "" when there is none.                                             *)
(***************************************************************************)
OErr(msg, overlay, table, field) ==
    [msg |-> msg, overlay |-> overlay, table |-> table, field |-> field]

\* Check 1: Filename matches $meta.name
FilenameErrors(o, k) ==
    LET metaName == Get(o.data.meta, "name")
    IN IF ~Truthy(metaName)
       THEN <<OErr(o.filename \o ": missing $meta.name", k, "", "")>>
       ELSE IF metaName # Str(o.name)
       THEN <<OErr(o.filename \o ": $meta.name \"" \o ToStr(metaName)
                       \o "\" != filename \"" \o o.name \o "\"", k, "", "")>>
       ELSE <<>>

FilenameMatches(ovs) ==
    Concat([k \in 1..Len(ovs) |-> FilenameErrors(ovs[k], k)])

\* mutant: the clients of every overlay are examined
NeedsClientsAlways(visibility) == TRUE

\* if (visibility === 'private')
NeedsClients(visibility) == visibility = Str("private")

\* Check 2: Visibility is valid; private overlays have clients
VisibilityErrors(o, k) ==
    LET visibility == Get(o.data.meta, "visibility")
        clients == Get(o.data.meta, "clients")
    IN (IF visibility # Str("public") /\ visibility # Str("private")
        THEN <<OErr(o.filename \o ": $meta.visibility must be \"public\" or \"private\", got \""
                        \o ToStr(visibility) \o "\"", k, "", "visibility")>>
        ELSE <<>>)
       \o
       (IF NeedsClients(visibility)
           /\ (~IsArray(clients) \/ Len(clients.items) = 0)
        THEN <<OErr(o.filename \o ": private overlay missing non-empty clients array",
                    k, "", "clients")>>
        ELSE <<>>)

VisibilityValid(ovs) ==
    Concat([k \in 1..Len(ovs) |-> VisibilityErrors(ovs[k], k)])

\* Check 3: $meta.fields is non-empty string array
FieldsErrors(o, k) ==
    LET fields == Get(o.data.meta, "fields")
    IN IF ~IsArray(fields) \/ Len(fields.items) = 0
       THEN <<OErr(o.filename \o ": $meta.fields must be a non-empty array", k, "", "")>>
       ELSE IF \E i \in 1..Len(fields.items) : fields.items[i].t # "string"
       THEN <<OErr(o.filename \o ": $meta.fields must contain only strings", k, "", "")>>
       ELSE <<>>

FieldsValid(ovs) ==
    Concat([k \in 1..Len(ovs) |-> FieldsErrors(ovs[k], k)])

\* Check 4: values is non-empty array
ValuesErrors(o, k) ==
    LET values == o.data.values
    IN IF ~IsArray(values) \/ Len(values.items) = 0
       THEN <<OErr(o.filename \o ": values must be a non-empty array", k, "", "")>>
       ELSE <<>>

ValuesValid(ovs) ==
    Concat([k \in 1..Len(ovs) |-> ValuesErrors(ovs[k], k)])

\* o.data.$meta?.fields || [], the names of an array of strings
FieldsOrEmpty(o) ==
    LET fields == Get(o.data.meta, "fields")
    IN IF IsArray(fields) THEN [i \in 1..Len(fields.items) |-> ToStr(fields.items[i])]
       ELSE <<>>

\* (o.data.values || []).length
ValuesLength(o) == IF IsArray(o.data.values) THEN Len(o.data.values.items) ELSE 0

\* the body of the loop over Object.entries(baseTables), for overlay k and
\* the base tables from t on
RECURSIVE CoverageErrors(_, _, _, _)
CoverageErrors(o, k, base, t) ==
    IF t > Len(base) THEN <<>>
    ELSE LET rows == base[t].rows
             \* fields.filter(f => f in sampleRow), sampleRow = rows[0]
             matchingFields ==
                 IF Len(rows) = 0 THEN <<>>
                 ELSE SelectSeq(FieldsOrEmpty(o), LAMBDA f : f \in DOMAIN rows[1])
             errs == IF ValuesLength(o) < Len(rows)
                     THEN [m \in 1..Len(matchingFields) |->
                              OErr(o.filename \o ": needs " \o ToString(Len(rows))
                                       \o " values for " \o base[t].name \o "."
                                       \o matchingFields[m] \o ", has "
                                       \o ToString(ValuesLength(o)),
                                   k, base[t].name, matchingFields[m])]
                     ELSE <<>>
         IN errs \o CoverageErrors(o, k, base, t + 1)

\* Check 5: Values count >= row count of the matching tables
ValuesCoverRows(ovs, base) ==
    Concat([k \in 1..Len(ovs) |-> CoverageErrors(ovs[k], k, base, 1)])

\* report(name, errors) of the overlay validator: the same function
OverlayReport(name, errors, next) == Report(name, errors, next)

\* discovery of the overlay files, the early exit, the load of baseTables
Discover ==
    /\ pc = "discover"
    /\ IF Len(OverlayFiles(overlayDir)) = 0
       THEN /\ stdout' = Append(stdout, "No overlay files found")
            /\ exitCode' = 1
            /\ pc' = "aborted"
       ELSE /\ stdout' = stdout
                \o <<"  Found " \o ToString(Len(OverlayFiles(overlayDir))) \o " overlay files">>
                \o (IF DatasetMissing(dataset)
                    THEN <<"  Warning: could not load base tables for row-count check">>
                    ELSE <<>>)
            /\ exitCode' = exitCode
            /\ pc' = "overlay1"
    /\ UNCHANGED <<dataset, tables, checksums, overlayDir, passed, failed, engine>>

OverlayCheck1 ==
    /\ pc = "overlay1"
    /\ OverlayReport("Filename matches $meta.name",
                     FilenameMatches(OverlayFiles(overlayDir)), "overlay2")

OverlayCheck2 ==
    /\ pc = "overlay2"
    /\ OverlayReport("Visibility valid, private has clients",
                     VisibilityValid(OverlayFiles(overlayDir)), "overlay3")

OverlayCheck3 ==
    /\ pc = "overlay3"
    /\ OverlayReport("Fields is non-empty string array",
                     FieldsValid(OverlayFiles(overlayDir)), "overlay4")

OverlayCheck4 ==
    /\ pc = "overlay4"
    /\ OverlayReport("Values is non-empty array",
                     ValuesValid(OverlayFiles(overlayDir)), "overlay5")

\* the check is skipped, and nothing is reported, when no base table loaded
OverlayCheck5 ==
    /\ pc = "overlay5"
    /\ IF Len(BaseTables(dataset, tables)) = 0
       THEN /\ stdout' = Append(stdout,
                "  - Values >= row count (skipped - no base tables loaded)")
            /\ pc' = "overlaySummary"
            /\ UNCHANGED <<dataset, tables, checksums, overlayDir, passed, failed,
                           exitCode, engine>>
       ELSE OverlayReport("Values >= row count for matching tables",
                          ValuesCoverRows(OverlayFiles(overlayDir),
                                          BaseTables(dataset, tables)),
                          "overlaySummary")

\* mutant: the exit status of a run is always 0
OverlayExitStatusZero(failCount) == 0

\* process.exit(failCount > 0 ? 1 : 0)
OverlayExitStatus(failCount) == IF failCount > 0 THEN 1 ELSE 0

OverlaySummary ==
    /\ pc = "overlaySummary"
    /\ LET total == Len(passed) + Len(failed)
           failCount == Len(failed)
       IN /\ stdout' = stdout \o
                <<"",
                  IF failCount = 0
                  THEN "All " \o ToString(total) \o " checks passed."
                  ELSE ToString(failCount) \o "/" \o ToString(total) \o " checks failed.",
                  "">>
          /\ exitCode' = OverlayExitStatus(failCount)
    /\ pc' = "overlayDone"
    /\ UNCHANGED <<dataset, tables, checksums, overlayDir, passed, failed, engine>>

Next ==
    \/ Check1 \/ Check2 \/ Check3 \/ Check4 \/ Check5 \/ Check6 \/ Summary
    \/ Discover \/ OverlayCheck1 \/ OverlayCheck2 \/ OverlayCheck3 \/ OverlayCheck4
    \/ OverlayCheck5 \/ OverlaySummary

(***************************************************************************)
(* The inputs.  The script reads whatever JSON the data directory holds;   *)
(* Init draws dataset.json, the table files and checksums.json from the    *)
(* families below, each varying the part of the input one group of checks  *)
(* reads and keeping the rest small.                                       *)
(***************************************************************************)
SeqsUpTo(S, n) == UNION {[1..k -> S] : k \in 0..n}

SeqsFromTo(S, m, n) == UNION {[1..k -> S] : k \in m..n}

\* the rows whose fields are any subset of DOMAIN dom, field f valued in dom[f]
RowsOf(dom) ==
    UNION {{r \in [F -> UNION {dom[f] : f \in DOMAIN dom}] : \A f \in F : r[f] \in dom[f]}
           : F \in SUBSET DOMAIN dom}

\* the schemas over the fields of DOMAIN tagsOf, in any key order, field f
\* tagged from tagsOf[f]
SchemasOf(tagsOf) ==
    LET entries == UNION {{[field |-> f, tag |-> g] : g \in tagsOf[f]} : f \in DOMAIN tagsOf}
    IN {s \in SeqsUpTo(entries, Cardinality(DOMAIN tagsOf)) :
           \A i, j \in 1..Len(s) : i # j => s[i].field # s[j].field}

\* tables[file.replace('.json', '')] = data
Table(file, meta, schema, rows) ==
    [file |-> file, name |-> StripJson(file), meta |-> meta,
     schema |-> schema, rows |-> rows]

\* a table file with a $meta.schema
Typed(file, schema, rows) == Table(file, "schema", schema, rows)

F(field, tag) == [field |-> field, tag |-> tag]

NoWhen == <<>>

Rel(from, to, hasWhen, when, nullable) ==
    [from |-> from, to |-> to, hasWhen |-> hasWhen, when |-> when, nullable |-> nullable]

NoChecksums == [exists |-> FALSE, keys |-> <<>>]

\* a run of a validator: the overlay engine is not called
EngineIdle ==
    /\ stack = <<>>
    /\ cursor = 1
    /\ materialized = <<>>
    /\ matErrors = <<>>
    /\ result = [kind |-> "none"]

Start(ds, tbls, cs) ==
    /\ dataset = ds
    /\ tables = tbls
    /\ checksums = cs
    /\ overlayDir = <<>>
    /\ pc = "check1"
    /\ passed = <<>>
    /\ failed = <<>>
    /\ stdout = <<"Validating mock data...">>
    /\ exitCode = -1
    /\ EngineIdle

BothListed == [tables |-> <<"users", "memberships">>, relations |-> <<>>]

\* Schemas and rows of one table, alone or beside a second table.
SchemaMetas ==
    {[meta |-> "none", schema |-> <<>>], [meta |-> "noschema", schema |-> <<>>]}
    \cup {[meta |-> "schema", schema |-> s] :
            s \in SchemasOf([id |-> {"string", "string?"},
                             email |-> {"string", "string?", "a?b", ""}])}

SchemaRows ==
    SeqsUpTo(RowsOf([id |-> {Str("u1"), Str("")}, email |-> {Str("x@y")}]), MaxRows)

InitSchema ==
    \E m \in SchemaMetas, rows \in SchemaRows, other \in 0..2 :
        LET users == Table("users.json", m.meta, m.schema, rows)
            bare == Table("memberships.json", "none", <<>>, <<[id |-> Str("m1")]>>)
            short == Typed("memberships.json", <<F("id", "string"), F("role", "string")>>,
                           <<[id |-> Str("m1")], [id |-> Str("m2"), role |-> Str("owner")]>>)
        IN Start(BothListed,
                 CASE other = 0 -> <<users>>
                   [] other = 1 -> <<bare, users>>
                   [] other = 2 -> <<users, short>>,
                 NoChecksums)

\* Ids of the rows of one table, alone or beside a second table.
IdValues == {Null, Str("u1"), Str("u2"), Str(""), Num("0")}

InitIds ==
    \E rows \in SeqsUpTo(RowsOf([id |-> IdValues]), MaxIdRows), other \in 0..1 :
        LET users == Typed("users.json", <<F("id", "string")>>, rows)
            twice == Typed("memberships.json", <<F("id", "string")>>,
                           <<[id |-> Str("m1")], [id |-> Str("m1")]>>)
        IN Start(BothListed,
                 IF other = 0 THEN <<users>> ELSE <<users, twice>>,
                 NoChecksums)

\* Relations from memberships.sourceId over varied source rows.
Whens ==
    {[has |-> FALSE, when |-> NoWhen],
     [has |-> TRUE, when |-> [sourceType |-> Str("user")]],
     [has |-> TRUE, when |-> [sourceType |-> Str("user"), id |-> Str("m1")]],
     [has |-> TRUE, when |-> [sourceId |-> Null]]}

FkRelations ==
    {Rel("memberships.sourceId", "users.id", w.has, w.when, n) : w \in Whens, n \in BOOLEAN}
    \cup {Rel("memberships.sourceId", "entities.id", FALSE, NoWhen, FALSE),
          Rel("transfers.sourceId", "users.id", FALSE, NoWhen, FALSE)}

\* row i of memberships gets the id m<i>
WithIds(rows) ==
    [i \in 1..Len(rows) |->
        [f \in DOMAIN rows[i] \cup {"id"} |->
            IF f = "id" THEN Str("m" \o ToString(i)) ELSE rows[i][f]]]

SourceRows ==
    {r \in RowsOf([sourceId |-> {Null, Str("u1"), Str("u9"), Num("0")},
                   sourceType |-> {Str("user"), Str("entity")}]) :
        "sourceType" \in DOMAIN r}

UsersSchema == <<F("id", "string"), F("email", "string?")>>

MembershipsSchema ==
    <<F("id", "string"), F("sourceId", "string?"), F("sourceType", "string")>>

TargetRows ==
    {<<[id |-> Str("u1")]>>,
     <<[id |-> Str("u1")], [email |-> Str("x@y")], [id |-> Num("0")]>>}

InitFk ==
    \E rel \in FkRelations, rows \in SeqsUpTo(SourceRows, MaxRows), target \in TargetRows :
        Start([tables |-> <<"users", "memberships">>, relations |-> <<rel>>],
              <<Typed("memberships.json", MembershipsSchema, WithIds(rows)),
                Typed("users.json", UsersSchema, target)>>,
              NoChecksums)

\* Relations over source rows that have no id.
InitFkAnonymous ==
    \E rel \in FkRelations :
        Start([tables |-> <<"users", "memberships">>, relations |-> <<rel>>],
              <<Typed("memberships.json", MembershipsSchema,
                      <<[sourceId |-> Str("u9"), sourceType |-> Str("user")],
                        [sourceType |-> Str("user")]>>),
                Typed("users.json", UsersSchema, <<[id |-> Str("u1")]>>)>>,
              NoChecksums)

\* Several relations over two fixed source rows.
InitRels ==
    \E rels \in SeqsFromTo(FkRelations, 2, MaxRels + 1) :
        Start([tables |-> <<"users", "memberships">>, relations |-> rels],
              <<Typed("memberships.json", MembershipsSchema,
                      <<[id |-> Str("m1"), sourceId |-> Str("u9"), sourceType |-> Str("user")],
                        [id |-> Str("m2"), sourceType |-> Str("entity")]>>),
                Typed("users.json", UsersSchema, <<[id |-> Str("u1")]>>)>>,
              NoChecksums)

\* Two relations, each with none, one or both of its tables not loaded.
UnloadedRelations ==
    {Rel(from, to, FALSE, NoWhen, FALSE) :
        from \in {"memberships.sourceId", "transfers.sourceId"},
        to \in {"users.id", "entities.id"}}

InitUnloaded ==
    \E first \in UnloadedRelations, second \in UnloadedRelations, withUsers \in BOOLEAN :
        LET users == Typed("users.json", UsersSchema, <<[id |-> Str("u1")]>>)
            memberships ==
                Typed("memberships.json", <<F("id", "string")>>,
                      <<[id |-> Str("m1"), sourceId |-> Str("u9")],
                        [id |-> Str("m2"), sourceId |-> Str("u1")]>>)
        IN Start([tables |-> <<"users", "memberships">>, relations |-> <<first, second>>],
                 IF withUsers THEN <<memberships, users>> ELSE <<memberships>>,
                 NoChecksums)

\* The registry's table list against the files found, and checksums.json.
TableNames == {"users", "memberships"}

FileLists ==
    {fs \in SeqsUpTo(TableNames, Cardinality(TableNames)) :
        \A i, j \in 1..Len(fs) : i # j => fs[i] # fs[j]}

ChecksumFiles ==
    {NoChecksums,
     [exists |-> TRUE, keys |-> <<>>],
     [exists |-> TRUE, keys |-> <<"users.json">>],
     [exists |-> TRUE, keys |-> <<"memberships.json", "users.json">>],
     [exists |-> TRUE, keys |-> <<"users.json", "dataset.json">>],
     [exists |-> TRUE, keys |-> <<"users.json", "memberships.json", "old.json">>]}

InitRegistry ==
    \E fs \in FileLists, listed \in SeqsUpTo(TableNames, MaxListed), cs \in ChecksumFiles :
        Start([tables |-> listed, relations |-> <<>>],
              [i \in 1..Len(fs) |->
                  Typed(fs[i] \o ".json", <<F("id", "string")>>, <<[id |-> Str("r1")]>>)],
              cs)

\* Relation fields against the schemas of the two tables.
InitRelSchemas ==
    \E um \in {[meta |-> "none", schema |-> <<>>],
               [meta |-> "noschema", schema |-> <<>>],
               [meta |-> "schema", schema |-> <<>>],
               [meta |-> "schema", schema |-> <<F("id", "string")>>],
               [meta |-> "schema", schema |-> <<F("id", "")>>],
               [meta |-> "schema", schema |-> <<F("email", "string")>>]},
       ms \in {<<F("id", "string"), F("sourceId", "string?")>>,
               <<F("id", "string")>>,
               <<F("sourceId", ""), F("id", "string")>>},
       rel \in {Rel("memberships.sourceId", "users.id", FALSE, NoWhen, TRUE),
                Rel("memberships.id", "users.email", FALSE, NoWhen, TRUE),
                Rel("memberships.sourceId", "entities.id", FALSE, NoWhen, TRUE)},
       loaded \in 1..3 :
        LET users == Table("users.json", um.meta, um.schema, <<[id |-> Str("u1")]>>)
            memberships == Typed("memberships.json", ms,
                                 <<[id |-> Str("m1"), sourceId |-> Str("u1")]>>)
        IN Start([tables |-> <<"users", "memberships">>, relations |-> <<rel>>],
                 CASE loaded = 1 -> <<users, memberships>>
                   [] loaded = 2 -> <<memberships, users>>
                   [] loaded = 3 -> <<memberships>>,
                 NoChecksums)

(***************************************************************************)
(* The inputs of the overlay validator: the overlay directory, and the     *)
(* mock-data directory its row-count check reads.                          *)
(***************************************************************************)
Overlay(filename, meta, values) ==
    [filename |-> filename, data |-> [meta |-> meta, values |-> values]]

\* a directory: its entries bear distinct file names
Directories(entries, n) ==
    {d \in SeqsUpTo(entries, n) :
        \A i, j \in 1..Len(d) : i # j => d[i].filename # d[j].filename}

\* the dataset.json that could not be read
MissingDataset == [tables |-> <<>>, relations |-> <<>>, missing |-> TRUE]

\* an array of n values
Values(n) == Arr([i \in 1..n |-> Str("v")])

\* an array of field names
Fields(names) == Arr([i \in 1..Len(names) |-> Str(names[i])])

StartOverlays(dir, ds, tbls) ==
    /\ dataset = ds
    /\ tables = tbls
    /\ checksums = NoChecksums
    /\ overlayDir = dir
    /\ pc = "discover"
    /\ passed = <<>>
    /\ failed = <<>>
    /\ stdout = <<"Validating overlays...">>
    /\ exitCode = -1
    /\ EngineIdle

\* one base table of two rows
OneBaseTable ==
    <<Typed("users.json", <<F("id", "string"), F("firstName", "string")>>,
            <<[id |-> Str("u1"), firstName |-> Str("Ann")],
              [id |-> Str("u2"), firstName |-> Str("Bob")]>>)>>

\* File names against $meta.name.
NameValues == {Str("kenya"), Str("kenya.json"), Str(""), Null}

NameMetas ==
    {<<>>}
    \cup {[name |-> v, visibility |-> Str("public"), fields |-> Fields(<<"firstName">>)] :
            v \in NameValues}

NameEntries ==
    {Overlay(f, m, Values(2)) :
        f \in {"kenya.json", "colombia.json", "package.json", "README.md"},
        m \in NameMetas}

InitOverlayNames ==
    \E dir \in Directories(NameEntries, MaxOverlays) :
        StartOverlays(dir, [tables |-> <<"users">>, relations |-> <<>>], OneBaseTable)

\* $meta.visibility against $meta.clients.
VisibilityMetas ==
    {[f \in DOMAIN m \cup {"name", "fields"} |->
         IF f = "name" THEN Str("kenya")
         ELSE IF f = "fields" THEN Fields(<<"firstName">>)
         ELSE m[f]] :
        m \in RowsOf([visibility |-> {Str("public"), Str("private"), Str("internal"), Null},
                      clients |-> {Arr(<<>>), Arr(<<Str("acme")>>), Str("acme"), Null}])}

VisibilityEntries ==
    {Overlay(f, m, Values(2)) : f \in {"kenya.json", "colombia.json"}, m \in VisibilityMetas}

InitOverlayVisibility ==
    \E dir \in Directories(VisibilityEntries, MaxOverlays) :
        StartOverlays(dir, [tables |-> <<"users">>, relations |-> <<>>], OneBaseTable)

\* $meta.fields and values against the rows of the base tables.
FieldLists ==
    {<<>>, <<"firstName">>, <<"email">>, <<"firstName", "email">>,
     <<"email", "firstName">>, <<"lastName">>}

CoverageMetas ==
    {[name |-> Str("kenya"), visibility |-> Str("public")]}
    \cup {[name |-> Str("kenya"), visibility |-> Str("public"), fields |-> Fields(fs)] :
            fs \in FieldLists}
    \cup {[name |-> Str("kenya"), visibility |-> Str("public"),
           fields |-> Arr(<<Str("firstName"), Num("7")>>)]}

CoverageValues == {Undefined} \cup {Values(n) : n \in 0..MaxValues}

BaseRows ==
    SeqsUpTo(RowsOf([firstName |-> {Str("Ann")}, email |-> {Str("x@y")}]) \ {<<>>},
             MaxBaseRows)

InitOverlayCoverage ==
    \E m \in CoverageMetas, v \in CoverageValues, rows \in BaseRows,
       listed \in 1..4 :
        LET kenya == Overlay("kenya.json", m, v)
            short == Overlay("short.json",
                             [name |-> Str("short"), visibility |-> Str("public"),
                              fields |-> Fields(<<"firstName", "id">>)],
                             Values(1))
            users == Table("users.json", "none", <<>>, rows)
            farms == Table("farms.json", "none", <<>>,
                           <<[id |-> Str("f1"), email |-> Str("f@y")], [id |-> Str("f2")],
                             [id |-> Str("f3"), email |-> Str("g@y")]>>)
        IN StartOverlays(IF listed \in {2, 3} THEN <<kenya, short>> ELSE <<kenya>>,
                         [tables |-> CASE listed = 1 -> <<"users">>
                                       [] listed = 2 -> <<"users", "farms">>
                                       [] listed = 3 -> <<"farms", "users", "farms">>
                                       [] listed = 4 -> <<"farms", "entities">>,
                          relations |-> <<>>],
                         <<users, farms>>)

\* Checks with many errors: n rows without id, n overlays without $meta.
ManyRows(n) == [i \in 1..n |-> [email |-> Str("x@y")]]

ManyOverlays(n) ==
    [i \in 1..n |-> Overlay("o" \o ToString(i) \o ".json", <<>>, Undefined)]

InitMany ==
    \E n \in 1..MaxErrors,
       ds \in {[tables |-> <<"users">>, relations |-> <<>>],
               [tables |-> <<"entities">>, relations |-> <<>>],
               MissingDataset} :
        \/ /\ ~DatasetMissing(ds)
           /\ Start(ds, <<Typed("users.json", <<F("id", "string")>>, ManyRows(n))>>,
                    NoChecksums)
        \/ StartOverlays(ManyOverlays(n), ds, OneBaseTable)

Init ==
    \/ InitSchema \/ InitIds \/ InitFk \/ InitFkAnonymous \/ InitRels \/ InitRegistry
    \/ InitRelSchemas \/ InitUnloaded
    \/ InitOverlayNames \/ InitOverlayVisibility \/ InitOverlayCoverage \/ InitMany

Spec == Init /\ [][Next]_vars

(***************************************************************************)
(* The overlay engine, materialize(tables, overlayStack), after section    *)
(* 4.2 of the specification.  A flat overlay of the stack is               *)
(* [kind |-> "flat", name, fields, values], a legacy overlay               *)
(* [kind |-> "legacy", name, table, overrides], overrides being the        *)
(* function from row ids to partial rows.  The engine applies the stack    *)
(* one overlay a step, then returns.                                       *)
(***************************************************************************)
\* some row of the table holds the field
RowsHold(table, f) == \E i \in 1..Len(table.rows) : f \in DOMAIN table.rows[i]

\* the fields of the overlay that the rows of the table hold
MatchingFields(o, table) == SelectSeq(o.fields, LAMBDA f : RowsHold(table, f))

\* the overlay has fewer values than the matching table has rows
Insufficient(o, table) ==
    MatchingFields(o, table) # <<>> /\ Len(o.values) < Len(table.rows)

MaterializationError(o, table, f) ==
    [overlayName |-> o.name, tableName |-> table.name, fieldName |-> f,
     needed |-> Len(table.rows), available |-> Len(o.values)]

\* mutant: the scan of the tables ends at the first insufficient table
RECURSIVE FirstInsufficiency(_, _)
FirstInsufficiency(o, tbls) ==
    IF tbls = <<>> THEN <<>>
    ELSE IF Insufficient(o, Head(tbls))
    THEN <<MaterializationError(o, Head(tbls), MatchingFields(o, Head(tbls))[1])>>
    ELSE FirstInsufficiency(o, Tail(tbls))

\* step 2: one error for every matching field of every insufficient table
InsufficiencyErrors(o, tbls) ==
    Concat([t \in 1..Len(tbls) |->
        IF Insufficient(o, tbls[t])
        THEN [m \in 1..Len(MatchingFields(o, tbls[t])) |->
                 MaterializationError(o, tbls[t], MatchingFields(o, tbls[t])[m])]
        ELSE <<>>])

\* step 3: the composite key that seeds the shuffle
SeedKey(o, table, f) == o.name \o ":" \o table.name \o ":" \o f

HashModulus == 65537

Alphabet == "abcdefghijklmnopqrstuvwxyzABCDEFGHIJKLMNOPQRSTUVWXYZ0123456789:-_."

\* the stable hash of the key: a polynomial hash over its characters
RECURSIVE HashFrom(_, _, _)
HashFrom(key, i, h) ==
    IF i > Len(key) THEN h
    ELSE HashFrom(key, i + 1,
                  (h * 31 + IndexOf(Alphabet, SubSeq(key, i, i))) % HashModulus)

Hash(key) == HashFrom(key, 1, 7)

\* the pseudo-random sequence the shuffle draws from
NextRandom(x) == (x * 75 + 74) % HashModulus

Swap(seq, i, j) == [seq EXCEPT ![i] = seq[j], ![j] = seq[i]]

\* the seeded Fisher-Yates shuffle, from position i down
RECURSIVE ShuffleFrom(_, _, _)
ShuffleFrom(seq, i, x) ==
    IF i < 2 THEN seq
    ELSE ShuffleFrom(Swap(seq, i, (NextRandom(x) % i) + 1), i - 1, NextRandom(x))

\* the permutation of the values seeded by the key
Shuffle(values, key) == ShuffleFrom(values, Len(values), Hash(key))

\* mutant: the written row keeps nothing but the written field
AssignFieldOnly(table, f, shuffled) ==
    [table EXCEPT !.rows = [i \in 1..Len(table.rows) |-> [g \in {f} |-> Str(shuffled[i])]]]

\* step 4: row i gets the i-th shuffled value in field f
AssignField(table, f, shuffled) ==
    [table EXCEPT !.rows =
        [i \in 1..Len(table.rows) |->
            [g \in DOMAIN table.rows[i] \cup {f} |->
                IF g = f THEN Str(shuffled[i]) ELSE table.rows[i][g]]]]

\* the matching fields from position m on written into the table
RECURSIVE AssignFields(_, _, _)
AssignFields(o, table, m) ==
    IF m > Len(MatchingFields(o, table)) THEN table
    ELSE LET f == MatchingFields(o, table)[m]
         IN AssignFields(o, AssignField(table, f, Shuffle(o.values, SeedKey(o, table, f))),
                         m + 1)

\* steps 1 to 4 for one flat overlay: the tables it cannot fill are left
ApplyFlat(o, tbls) ==
    [t \in 1..Len(tbls) |->
        IF Insufficient(o, tbls[t]) THEN tbls[t] ELSE AssignFields(o, tbls[t], 1)]

\* mutant: the override replaces the row
MergeRowReplaces(row, override) == override

\* the shallow merge of the override object onto the row
MergeRow(row, override) ==
    [g \in DOMAIN row \cup DOMAIN override |->
        IF g \in DOMAIN override THEN override[g] ELSE row[g]]

\* the row has an entry in the overrides of the legacy overlay
Overridden(o, row) ==
    /\ "id" \in DOMAIN row
    /\ row["id"].t = "string"
    /\ row["id"].s \in DOMAIN o.overrides

\* one legacy overlay: the rows of its table that have an entry are merged
ApplyLegacy(o, tbls) ==
    [t \in 1..Len(tbls) |->
        IF tbls[t].name # o.table THEN tbls[t]
        ELSE [tbls[t] EXCEPT !.rows =
                 [i \in 1..Len(tbls[t].rows) |->
                     IF Overridden(o, tbls[t].rows[i])
                     THEN MergeRow(tbls[t].rows[i], o.overrides[tbls[t].rows[i]["id"].s])
                     ELSE tbls[t].rows[i]]]]

\* applyOverlayStack dispatches on the representation of the overlay
ApplyOverlay(o, tbls) ==
    IF o.kind = "flat" THEN ApplyFlat(o, tbls) ELSE ApplyLegacy(o, tbls)

\* mutant: the stack is walked from its end
OverlayFromEnd(stk, k) == stk[Len(stk) + 1 - k]

\* the overlay applied at step k
OverlayAt(stk, k) == stk[k]

\* the final result: the full error list, or the materialized table set
Outcome(errs, tbls) ==
    IF errs # <<>> THEN [kind |-> "errors", errors |-> errs]
    ELSE [kind |-> "tables", tables |-> tbls]

\* one overlay of the stack is applied to the table set in progress
ApplyNext ==
    /\ pc = "materialize"
    /\ cursor <= Len(stack)
    /\ LET o == OverlayAt(stack, cursor)
       IN /\ matErrors' = matErrors
                \o (IF o.kind = "flat" THEN InsufficiencyErrors(o, materialized) ELSE <<>>)
          /\ materialized' = ApplyOverlay(o, materialized)
    /\ cursor' = cursor + 1
    /\ UNCHANGED <<dataset, tables, checksums, overlayDir, pc, passed, failed, stdout,
                   exitCode, stack, result>>

\* the stack is exhausted: the engine returns
Return ==
    /\ pc = "materialize"
    /\ cursor > Len(stack)
    /\ result' = Outcome(matErrors, materialized)
    /\ pc' = "returned"
    /\ UNCHANGED <<dataset, tables, checksums, overlayDir, passed, failed, stdout,
                   exitCode, stack, cursor, materialized, matErrors>>

MaterializeNext == ApplyNext \/ Return

(***************************************************************************)
(* The inputs of the overlay engine: base tables and an overlay stack.     *)
(***************************************************************************)
StartEngine(tbls, stk) ==
    /\ dataset = [tables |-> <<>>, relations |-> <<>>]
    /\ tables = tbls
    /\ checksums = NoChecksums
    /\ overlayDir = <<>>
    /\ pc = "materialize"
    /\ passed = <<>>
    /\ failed = <<>>
    /\ stdout = <<>>
    /\ exitCode = -1
    /\ stack = stk
    /\ cursor = 1
    /\ materialized = tbls
    /\ matErrors = <<>>
    /\ result = [kind |-> "none"]

Flat(name, fields, values) ==
    [kind |-> "flat", name |-> name, fields |-> fields, values |-> values]

Legacy(name, table, overrides) ==
    [kind |-> "legacy", name |-> name, table |-> table, overrides |-> overrides]

\* n values of the overlay called name, all different
ValuesOf(name, n) == [i \in 1..n |-> name \o "-" \o ToString(i)]

\* the rows of users, each with or without an email
UserRows ==
    SeqsUpTo({[firstName |-> Str("User"), email |-> Str("x@y")],
              [firstName |-> Str("User")]}, MaxUsers)

\* row i gets the id <prefix><i>
Identified(prefix, rows) ==
    [i \in 1..Len(rows) |->
        [f \in DOMAIN rows[i] \cup {"id"} |->
            IF f = "id" THEN Str(prefix \o ToString(i)) ELSE rows[i][f]]]

Entities ==
    Table("entities.json", "none", <<>>,
          <<[id |-> Str("e1"), name |-> Str("Farm A"), email |-> Str("a@farm")],
            [id |-> Str("e2"), name |-> Str("Farm B")]>>)

FlatOverlays ==
    {Flat(n, fs, ValuesOf(n, k)) :
        n \in {"base", "kenya"},
        fs \in {<<"firstName">>, <<"email">>, <<"firstName", "name">>},
        k \in 1..MaxStackValues}

FlatStacks ==
    {stk \in SeqsUpTo(FlatOverlays, MaxStack) :
        \A i, j \in 1..Len(stk) : i # j => stk[i].name # stk[j].name}

InitFlat ==
    \E rows \in UserRows, stk \in FlatStacks :
        StartEngine(<<Table("users.json", "none", <<>>, Identified("u", rows)), Entities>>,
                    stk)

\* a partial row of a legacy override
Overrides ==
    {<<>>} \cup
    {[u1 |-> r] : r \in RowsOf([firstName |-> {Str("Amina")}, email |-> {Str("a@o")}])}
    \cup {[u1 |-> [firstName |-> Str("Wanjiru")], u2 |-> [phone |-> Str("+254")]],
          [u9 |-> [firstName |-> Str("Nobody")]]}

LegacyOverlays ==
    {Legacy(n, t, ov) :
        n \in {"public_base", "public_kenya"}, t \in {"users", "entities"},
        ov \in Overrides}

LegacyStacks ==
    {stk \in SeqsUpTo(LegacyOverlays, MaxStack) :
        \A i, j \in 1..Len(stk) : i # j => stk[i].name # stk[j].name}

InitLegacy ==
    \E stk \in LegacyStacks :
        StartEngine(<<Table("users.json", "none", <<>>,
                            <<[id |-> Str("u1"), firstName |-> Str("User"),
                               email |-> Str("x@y")],
                              [id |-> Str("u2"), firstName |-> Str("User")],
                              [firstName |-> Str("Anonymous")]>>),
                      Entities>>,
                    stk)

\* stacks of up to three overlays over two users, the overlays interleaved
DeepOverlays ==
    {Flat(n, fs, ValuesOf(n, 2)) :
        n \in {"base", "kenya", "uganda"}, fs \in {<<"firstName">>, <<"email">>}}

DeepStacks ==
    {stk \in SeqsFromTo(DeepOverlays, 3, MaxStack + 1) :
        \A i, j \in 1..Len(stk) : i # j => stk[i].name # stk[j].name}

InitDeep ==
    \E stk \in DeepStacks :
        StartEngine(<<Table("users.json", "none", <<>>,
                            <<[id |-> Str("u1"), firstName |-> Str("User"),
                               email |-> Str("x@y")],
                              [id |-> Str("u2"), firstName |-> Str("User")]>>),
                      Entities>>,
                    stk)

MaterializeInit == InitFlat \/ InitLegacy \/ InitDeep

Materialization == MaterializeInit /\ [][MaterializeNext]_vars

(***************************************************************************)
(* What a finished check left in the report.                               *)
(***************************************************************************)
\* report(name, ...) has run
Reported(name) ==
    \/ \E k \in 1..Len(passed) : passed[k] = name
    \/ \E k \in 1..Len(failed) : failed[k].check = name

\* the errors report(name, errors) recorded, <<>> for a passed check
Recorded(name) ==
    IF \E k \in 1..Len(failed) : failed[k].check = name
    THEN (CHOOSE e \in {failed[k] : k \in 1..Len(failed)} : e.check = name).errors
    ELSE <<>>

\* the positions of errs pushed for relation r and row i
AtRelRow(errs, r, i) == {e \in 1..Len(errs) : errs[e].rel = r /\ errs[e].row = i}

\* the positions of errs pushed for table name and row i (0: the table itself)
AtTableRow(errs, name, i) == {e \in 1..Len(errs) : errs[e].table = name /\ errs[e].row = i}

\* the positions of errs pushed for table name
AtTable(errs, name) == {e \in 1..Len(errs) : errs[e].table = name}

\* s ends with t
Suffix(s, t) == Len(s) >= Len(t) /\ SubSeq(s, Len(s) - Len(t) + 1, Len(s)) = t

FkErrs == Recorded("Foreign key integrity")

\* relation r has both its tables loaded
BothLoaded(r) ==
    /\ Lookup(tables, SplitDot(dataset.relations[r].from)[1]) # 0
    /\ Lookup(tables, SplitDot(dataset.relations[r].to)[1]) # 0

\* the rows of the fromTable of relation r
FromRows(r) == tables[Lookup(tables, SplitDot(dataset.relations[r].from)[1])].rows

\* the rows of the toTable of relation r
ToRows(r) == tables[Lookup(tables, SplitDot(dataset.relations[r].to)[1])].rows

\* the fromField value of row i for relation r
FromValue(r, i) == Get(FromRows(r)[i], SplitDot(dataset.relations[r].from)[2])

\* the value is null, or the property is absent
NullOrAbsent(v) == v = Null \/ v = Undefined

\* relation r applies to row i: it has no `when`, or every condition holds
Applies(r, i) ==
    \/ ~dataset.relations[r].hasWhen
    \/ \A k \in DOMAIN dataset.relations[r].when :
           Get(FromRows(r)[i], k) = dataset.relations[r].when[k]

\* the fromField value of row i is one of the toField values of toTable
Targeted(r, i) ==
    \E j \in 1..Len(ToRows(r)) :
        /\ SplitDot(dataset.relations[r].to)[2] \in DOMAIN ToRows(r)[j]
        /\ ToRows(r)[j][SplitDot(dataset.relations[r].to)[2]] = FromValue(r, i)

(***************************************************************************)
(* C1: a relation with a `when` clause yields no foreign-key error for a   *)
(* row of fromTable on which at least one `when` key differs from the      *)
(* row's value, whatever the row's fromField value is.                     *)
(***************************************************************************)
C1_WhenSkipsRow ==
    Reported("Foreign key integrity") =>
        \A r \in 1..Len(dataset.relations) :
            (dataset.relations[r].hasWhen /\ BothLoaded(r)) =>
                \A i \in 1..Len(FromRows(r)) :
                    (\E k \in DOMAIN dataset.relations[r].when :
                         Get(FromRows(r)[i], k) # dataset.relations[r].when[k])
                    => AtRelRow(FkErrs, r, i) = {}

\* a run whose relation has a `when` that a row with a dangling fromField
\* value fails, and another that a row without a fromField value fails
C1_Witness ==
    /\ Reported("Foreign key integrity")
    /\ \E r \in 1..Len(dataset.relations) :
        /\ dataset.relations[r].hasWhen
        /\ ~dataset.relations[r].nullable
        /\ BothLoaded(r)
        /\ \E i, j \in 1..Len(FromRows(r)) :
            /\ ~Applies(r, i)
            /\ ~NullOrAbsent(FromValue(r, i))
            /\ ~Targeted(r, i)
            /\ ~Applies(r, j)
            /\ NullOrAbsent(FromValue(r, j))

(***************************************************************************)
(* C2: for a relation whose two tables are loaded and a row it applies to  *)
(* whose fromField value is not null, the check reports exactly one error  *)
(* for that relation and row if the value is none of the toField values    *)
(* of toTable's rows, and none if it is one of them.                       *)
(***************************************************************************)
C2_ValueCheck ==
    Reported("Foreign key integrity") =>
        \A r \in 1..Len(dataset.relations) :
            BothLoaded(r) =>
                \A i \in 1..Len(FromRows(r)) :
                    (Applies(r, i) /\ ~NullOrAbsent(FromValue(r, i))) =>
                        Cardinality(AtRelRow(FkErrs, r, i)) =
                            IF Targeted(r, i) THEN 0 ELSE 1

\* a run in which a relation with a `when` applies to a row with a dangling
\* value and to a row with a falsy value that is a target
C2_Witness ==
    /\ Reported("Foreign key integrity")
    /\ \E r \in 1..Len(dataset.relations) :
        /\ dataset.relations[r].hasWhen
        /\ BothLoaded(r)
        /\ \E i, j \in 1..Len(FromRows(r)) :
            /\ Applies(r, i) /\ ~NullOrAbsent(FromValue(r, i)) /\ ~Targeted(r, i)
            /\ Cardinality(AtRelRow(FkErrs, r, i)) = 1
            /\ Applies(r, j) /\ ~Truthy(FromValue(r, j)) /\ Targeted(r, j)

(***************************************************************************)
(* C3: for a row the relation applies to whose fromField value is null or  *)
(* absent, the check reports exactly one error when the relation is not    *)
(* nullable and none when it is; the error is never a 'not found' error.   *)
(***************************************************************************)
C3_NullHandling ==
    Reported("Foreign key integrity") =>
        \A r \in 1..Len(dataset.relations) :
            BothLoaded(r) =>
                \A i \in 1..Len(FromRows(r)) :
                    (Applies(r, i) /\ NullOrAbsent(FromValue(r, i))) =>
                        /\ Cardinality(AtRelRow(FkErrs, r, i)) =
                               IF dataset.relations[r].nullable THEN 0 ELSE 1
                        /\ \A e \in AtRelRow(FkErrs, r, i) :
                               Suffix(FkErrs[e].msg, ": null but not nullable")

\* a run with a null and an absent fromField value on rows a relation
\* applies to, the target table holding a row without the toField
C3_Witness ==
    /\ Reported("Foreign key integrity")
    /\ \E r \in 1..Len(dataset.relations) :
        /\ BothLoaded(r)
        /\ \E j \in 1..Len(ToRows(r)) :
               SplitDot(dataset.relations[r].to)[2] \notin DOMAIN ToRows(r)[j]
        /\ \E i, j \in 1..Len(FromRows(r)) :
            /\ Applies(r, i) /\ FromValue(r, i) = Null
            /\ Applies(r, j) /\ FromValue(r, j) = Undefined

SchemaErrs == Recorded("Schema completeness")

\* the table declares a schema with at least one field
HasSchema(t) == tables[t].meta = "schema" /\ tables[t].schema # <<>>

\* the type tag ends with the nullability marker
MarkedNullable(tag) == EndsWith(tag, "?")

\* the type tag holds no `?` at all
Unmarked(tag) == \A c \in 1..Len(tag) : SubSeq(tag, c, c) # "?"

\* the row has an id that is not null
HasId(row) == "id" \in DOMAIN row /\ row["id"] # Null

\* the tables with field f removed from row i of table t
RemoveField(tbls, t, i, f) ==
    [tbls EXCEPT ![t].rows[i] = [g \in (DOMAIN @) \ {f} |-> @[g]]]

\* the message of a schema-completeness error for a row and a field
MissingMsg(name, ref, f) == name \o " row " \o ref \o ": missing \"" \o f \o "\""

(***************************************************************************)
(* C4: in a table with a non-empty schema, removing a non-nullable schema  *)
(* field f from a row that has it adds exactly one schema-completeness     *)
(* error, which names the table, the row's id and the field; a row with    *)
(* every non-nullable field contributes no error.                          *)
(***************************************************************************)
C4_RemovalAddsOneError ==
    Reported("Schema completeness") =>
        \A t \in 1..Len(tables) :
            HasSchema(t) =>
                \A i \in 1..Len(tables[t].rows) :
                    LET row == tables[t].rows[i]
                        schema == tables[t].schema
                    IN /\ \A k \in 1..Len(schema) :
                            (~MarkedNullable(schema[k].tag) /\ schema[k].field \in DOMAIN row) =>
                                LET f == schema[k].field
                                    after == SchemaCompleteness(RemoveField(tables, t, i, f))
                                    ref == IF f # "id" /\ HasId(row)
                                           THEN ToStr(row["id"]) ELSE ToString(i - 1)
                                IN /\ Len(after) = Len(SchemaErrs) + 1
                                   /\ \E e \in AtTableRow(after, tables[t].name, i) :
                                          after[e].msg = MissingMsg(tables[t].name, ref, f)
                       /\ (\A k \in 1..Len(schema) :
                               ~MarkedNullable(schema[k].tag) => schema[k].field \in DOMAIN row)
                          => AtTableRow(SchemaErrs, tables[t].name, i) = {}

(***************************************************************************)
(* C5: a schema field is exempt from the presence check exactly when its   *)
(* type tag ends with `?`: a row lacking the field gets an error for it    *)
(* if and only if the tag does not end with `?`.                           *)
(***************************************************************************)
C5_ExemptIffTagEndsWithMarker ==
    Reported("Schema completeness") =>
        \A t \in 1..Len(tables) :
            HasSchema(t) =>
                \A i \in 1..Len(tables[t].rows), k \in 1..Len(tables[t].schema) :
                    tables[t].schema[k].field \notin DOMAIN tables[t].rows[i] =>
                        ((\E e \in AtTableRow(SchemaErrs, tables[t].name, i) :
                              Suffix(SchemaErrs[e].msg,
                                     ": missing \"" \o tables[t].schema[k].field \o "\""))
                         <=> ~MarkedNullable(tables[t].schema[k].tag))

(***************************************************************************)
(* C6: a table whose schema is missing or empty gets exactly one           *)
(* schema-completeness error, for the table and for none of its rows, and  *)
(* the other tables are still checked: each of their rows lacking a field  *)
(* whose tag holds no `?` has its error.                                   *)
(***************************************************************************)
C6_NoSchemaIsOneError ==
    Reported("Schema completeness") =>
        \A t \in 1..Len(tables) :
            IF ~HasSchema(t)
            THEN /\ Cardinality(AtTable(SchemaErrs, tables[t].name)) = 1
                 /\ \E e \in AtTableRow(SchemaErrs, tables[t].name, 0) :
                        SchemaErrs[e].msg = tables[t].name \o ": no schema in $meta"
            ELSE \A i \in 1..Len(tables[t].rows), k \in 1..Len(tables[t].schema) :
                    (/\ tables[t].schema[k].field \notin DOMAIN tables[t].rows[i]
                     /\ Unmarked(tables[t].schema[k].tag))
                    => \E e \in AtTableRow(SchemaErrs, tables[t].name, i) :
                           Suffix(SchemaErrs[e].msg,
                                  ": missing \"" \o tables[t].schema[k].field \o "\"")

\* a run over a table without schema that has rows, followed by a table
\* with a schema and a row lacking a required field
C6_Witness ==
    /\ Reported("Schema completeness")
    /\ \E t, u \in 1..Len(tables) :
        /\ t < u
        /\ ~HasSchema(t)
        /\ Len(tables[t].rows) > 0
        /\ HasSchema(u)
        /\ \E i \in 1..Len(tables[u].rows) : AtTableRow(SchemaErrs, tables[u].name, i) # {}

IdErrs == Recorded("ID uniqueness")

(***************************************************************************)
(* C7: in a table where exactly two rows share an id value and all other   *)
(* rows have distinct, present ids, ID uniqueness reports exactly one      *)
(* error for the table, at the second of the two rows.                     *)
(***************************************************************************)
C7_OneErrorPerSharedId ==
    Reported("ID uniqueness") =>
        \A t \in 1..Len(tables) :
            LET rows == tables[t].rows
                pairs == {p \in (1..Len(rows)) \X (1..Len(rows)) :
                             p[1] < p[2] /\ rows[p[1]]["id"] = rows[p[2]]["id"]}
            IN ((\A i \in 1..Len(rows) : HasId(rows[i])) /\ Cardinality(pairs) = 1) =>
                   /\ Cardinality(AtTable(IdErrs, tables[t].name)) = 1
                   /\ \A p \in pairs :
                          \E e \in AtTableRow(IdErrs, tables[t].name, p[2]) :
                              IdErrs[e].msg = tables[t].name \o ": duplicate \""
                                                  \o ToStr(rows[p[2]]["id"]) \o "\""

(***************************************************************************)
(* C8: ID uniqueness reports exactly one error for every row whose id is   *)
(* absent or null, no missing-id error for a row whose id is a non-null    *)
(* value, and a row without an id gets no other error.                     *)
(***************************************************************************)
C8_MissingIdIffNullOrAbsent ==
    Reported("ID uniqueness") =>
        \A t \in 1..Len(tables) : \A i \in 1..Len(tables[t].rows) :
            LET at == AtTableRow(IdErrs, tables[t].name, i)
                missing == {e \in at : Suffix(IdErrs[e].msg, ": row without \"id\" field")}
            IN IF HasId(tables[t].rows[i])
               THEN missing = {}
               ELSE Cardinality(missing) = 1 /\ at = missing

DcErrs == Recorded("Dataset consistency")

\* the names dataset.tables lists
Listed == {dataset.tables[k] : k \in 1..Len(dataset.tables)}

\* the names of the loaded tables
Loaded == {tables[t].name : t \in 1..Len(tables)}

(***************************************************************************)
(* C9, as claimed: dataset consistency reports exactly one error per       *)
(* element of the symmetric difference between the registry's table list   *)
(* and the set of loaded table names.                                      *)
(***************************************************************************)
C9_OnePerSymmetricDifference ==
    Reported("Dataset consistency") =>
        Len(DcErrs) = Cardinality((Listed \ Loaded) \cup (Loaded \ Listed))

(***************************************************************************)
(* C9, amended: dataset consistency reports one error per entry of the     *)
(* registry's table list that names a table not loaded (a missing table    *)
(* listed twice is reported twice) and one error per loaded table that is  *)
(* not listed, and nothing else; it reports nothing when the two sets are  *)
(* equal.                                                                  *)
(***************************************************************************)
C9_OnePerEntry ==
    Reported("Dataset consistency") =>
        /\ Len(DcErrs) =
               Cardinality({k \in 1..Len(dataset.tables) : dataset.tables[k] \notin Loaded})
               + Cardinality(Loaded \ Listed)
        /\ \A n \in Listed \ Loaded :
               Cardinality({e \in 1..Len(DcErrs) :
                   DcErrs[e].msg = "Table \"" \o n \o "\" listed in dataset.json but no file found"})
               = Cardinality({k \in 1..Len(dataset.tables) : dataset.tables[k] = n})
        /\ \A n \in Loaded \ Listed :
               Cardinality({e \in 1..Len(DcErrs) :
                   DcErrs[e].msg = "File " \o n \o ".json exists but not listed in dataset.json"})
               = 1
        /\ Listed = Loaded => DcErrs = <<>>

\* a run whose registry lists a missing table twice while a loaded table
\* is not listed
C9_Witness ==
    /\ Reported("Dataset consistency")
    /\ Loaded \ Listed # {}
    /\ \E j, k \in 1..Len(dataset.tables) :
           j < k /\ dataset.tables[j] = dataset.tables[k] /\ dataset.tables[j] \notin Loaded

RcErrs == Recorded("Relations consistency")

\* the keys of the schema the table declares
DeclaredKeys(t) ==
    IF tables[t].meta = "schema"
    THEN {tables[t].schema[k].field : k \in 1..Len(tables[t].schema)}
    ELSE {}

\* relations consistency reported, for relation r, that field is not in table
SideReported(r, table, field) ==
    \E e \in 1..Len(RcErrs) :
        /\ RcErrs[e].rel = r
        /\ RcErrs[e].msg = "Relation field \"" \o field \o "\" not in " \o table \o " schema"

(***************************************************************************)
(* C10: for every relation, relations consistency reports an error for     *)
(* the from side exactly when fromField is no key of the declared schema   *)
(* of fromTable, and likewise for the to side; so a relation whose two     *)
(* fields are schema keys gets no error.  (Sides whose table is loaded.)   *)
(***************************************************************************)
C10_ErrorIffNotSchemaKey ==
    Reported("Relations consistency") =>
        \A r \in 1..Len(dataset.relations) :
            \A side \in {SplitDot(dataset.relations[r].from), SplitDot(dataset.relations[r].to)} :
                Lookup(tables, side[1]) # 0 =>
                    (SideReported(r, side[1], side[2])
                     <=> side[2] \notin DeclaredKeys(Lookup(tables, side[1])))

(***************************************************************************)
(* The battery of the data validator, and what each check produces on the  *)
(* input of the run.                                                       *)
(***************************************************************************)
Battery ==
    <<"Dataset consistency", "Schema completeness", "ID uniqueness",
      "Foreign key integrity", "Relations consistency", "Checksums">>

Produced(c) ==
    CASE c = 1 -> DatasetConsistency(dataset, tables)
      [] c = 2 -> SchemaCompleteness(tables)
      [] c = 3 -> IdUniqueness(tables)
      [] c = 4 -> ForeignKeyIntegrity(dataset, tables)
      [] c = 5 -> RelationsConsistency(dataset, tables)
      [] c = 6 -> Checksums(checksums, tables)

\* how many times name is recorded in passed, in failed
TimesPassed(name) == Cardinality({k \in 1..Len(passed) : passed[k] = name})

TimesFailed(name) == Cardinality({k \in 1..Len(failed) : failed[k].check = name})

(***************************************************************************)
(* C11: the checks are independent.  In a finished run of the data         *)
(* validator every check of the battery is recorded exactly once: in       *)
(* passed if and only if it produces no error on the input, otherwise in   *)
(* failed with the full list of its errors, whatever the other checks      *)
(* produce; passed and failed are disjoint and together hold the battery.  *)
(***************************************************************************)
C11_ChecksIndependent ==
    pc = "done" =>
        /\ Len(passed) + Len(failed) = Len(Battery)
        /\ \A c \in 1..Len(Battery) :
               /\ TimesPassed(Battery[c]) + TimesFailed(Battery[c]) = 1
               /\ TimesPassed(Battery[c]) = 1 <=> Produced(c) = <<>>
               /\ Produced(c) # <<>> =>
                      \E k \in 1..Len(failed) :
                          failed[k] = [check |-> Battery[c], errors |-> Produced(c)]

\* a run in which a check passes after two earlier checks failed, and one
\* fails after an earlier one passed
C11_Witness ==
    /\ pc = "done"
    /\ TimesPassed("Dataset consistency") = 1
    /\ TimesFailed("Schema completeness") = 1
    /\ TimesFailed("ID uniqueness") = 1
    /\ TimesPassed("Checksums") = 1


\* s holds sub
Contains(s, sub) == IndexOf(s, sub) # 0

\* the five checks the documentation and the script name alike
FirstFive ==
    {"Dataset consistency", "Schema completeness", "ID uniqueness",
     "Foreign key integrity", "Relations consistency"}

\* the message speaks of an overlay file: its $meta, its clients, an override
OverlayMessage(msg) ==
    Contains(msg, "overlay") \/ Contains(msg, "override") \/ Contains(msg, "$meta")

(***************************************************************************)
(* C12: a finished run of the validation tool has recorded exactly six     *)
(* checks: dataset consistency, schema completeness, ID uniqueness,        *)
(* foreign key integrity, relations consistency and overlay validity, and  *)
(* the errors of the sixth check are overlay errors.                       *)
(***************************************************************************)
C12_SixthIsOverlayValidity ==
    pc = "done" =>
        /\ Len(passed) + Len(failed) = 6
        /\ \A name \in FirstFive : Reported(name)
        /\ Reported("Overlay validity")
        /\ \A k \in 1..Len(failed) :
               failed[k].check \notin FirstFive =>
                   \A e \in 1..Len(failed[k].errors) :
                       OverlayMessage(failed[k].errors[e].msg)

\* what the script does instead: six checks, the sixth being Checksums
C12_SixthIsChecksums ==
    pc = "done" =>
        /\ Len(passed) + Len(failed) = 6
        /\ \A name \in FirstFive : Reported(name)
        /\ Reported("Checksums")
        /\ ~Reported("Overlay validity")


\* the run went through its summary (the overlay validator can exit before)
ReachedSummary == pc \in {"done", "overlayDone"}

(***************************************************************************)
(* C13: a run of either validator that reaches its summary exits with      *)
(* status 0 if and only if no check was recorded as failed, and with       *)
(* status 1 otherwise.                                                     *)
(***************************************************************************)
C13_ExitStatus ==
    ReachedSummary =>
        /\ exitCode \in {0, 1}
        /\ exitCode = 0 <=> Len(failed) = 0

\* a finished run of the data validator with passed and failed checks,
\* exiting 1
C13_Witness ==
    /\ pc = "done"
    /\ Len(failed) > 0
    /\ Len(passed) > 0
    /\ exitCode = 1

\* a finished run of the overlay validator without failed check, exiting 0
C13_OverlayPasses ==
    /\ pc = "overlayDone"
    /\ Len(failed) = 0
    /\ exitCode = 0


(***************************************************************************)
(* What report() printed for a failed check: the lines under its header.   *)
(***************************************************************************)
\* the line is indented under a header: an error line or a remainder line
IsDetail(line) == Len(line) >= 4 /\ SubSeq(line, 1, 4) = "    "

\* the position in stdout of the header of the failed check name
HeaderAt(name) == CHOOSE h \in 1..Len(stdout) : stdout[h] = "  FAIL " \o name

\* the lines printed under the header of the failed check name
PrintedUnder(name) ==
    LET h == HeaderAt(name)
        stops == {j \in (h + 1)..Len(stdout) : ~IsDetail(stdout[j])}
        end == IF stops = {} THEN Len(stdout) + 1
               ELSE CHOOSE j \in stops : \A i \in stops : j <= i
    IN SubSeq(stdout, h + 1, end - 1)

\* min(n, 10)
Shown(n) == IF n < 10 THEN n ELSE 10

\* the checks of the overlay validator, and what each produces on the input
OverlayBattery ==
    <<"Filename matches $meta.name", "Visibility valid, private has clients",
      "Fields is non-empty string array", "Values is non-empty array",
      "Values >= row count for matching tables">>

OverlayProduced(c) ==
    CASE c = 1 -> FilenameMatches(OverlayFiles(overlayDir))
      [] c = 2 -> VisibilityValid(OverlayFiles(overlayDir))
      [] c = 3 -> FieldsValid(OverlayFiles(overlayDir))
      [] c = 4 -> ValuesValid(OverlayFiles(overlayDir))
      [] c = 5 -> ValuesCoverRows(OverlayFiles(overlayDir), BaseTables(dataset, tables))

\* what the check called name produces on the input of the run
ProducedBy(name) ==
    IF \E c \in 1..Len(Battery) : Battery[c] = name
    THEN Produced(CHOOSE c \in 1..Len(Battery) : Battery[c] = name)
    ELSE OverlayProduced(CHOOSE c \in 1..Len(OverlayBattery) : OverlayBattery[c] = name)

(***************************************************************************)
(* C14: truncation for display loses no error.  For a failed check with n  *)
(* errors, of either validator, exactly min(n, 10) errors are printed, the *)
(* first ones in their order; a remainder line stating n - 10 is printed   *)
(* if and only if n > 10; and the entry of the check in failed holds all   *)
(* the n errors the check produced (compared when the run has ended).      *)
(***************************************************************************)
C14_TruncationKeepsErrors ==
    \A k \in 1..Len(failed) :
        LET errors == failed[k].errors
            n == Len(errors)
            printed == PrintedUnder(failed[k].check)
        IN /\ ReachedSummary => errors = ProducedBy(failed[k].check)
           /\ n > 0
           /\ Len(printed) = Shown(n) + (IF n > 10 THEN 1 ELSE 0)
           /\ \A i \in 1..Shown(n) : printed[i] = "    -> " \o errors[i].msg
           /\ n > 10 => printed[Shown(n) + 1] = "    ... and " \o ToString(n - 10) \o " more"

\* a check with 12 errors has been reported: ten error lines and the
\* remainder line are printed
C14_Witness ==
    \E k \in 1..Len(failed) :
        /\ Len(failed[k].errors) = 12
        /\ Len(PrintedUnder(failed[k].check)) = 11

\* a check with exactly 10 errors has been reported
C14_ExactlyLimit ==
    \E k \in 1..Len(failed) :
        /\ Len(failed[k].errors) = 10
        /\ Len(PrintedUnder(failed[k].check)) = 10


(***************************************************************************)
(* The row an error was pushed for, and what its message carries.          *)
(***************************************************************************)
\* the row of the loaded table e.table the error e was pushed for
RowOf(e) == tables[Lookup(tables, e.table)].rows[e.row]

\* the row-level errors of the check called name
RowLevel(name) == {e \in {Recorded(name)[k] : k \in 1..Len(Recorded(name))} : e.row > 0}

\* the message holds the text (an empty text is held by every message)
Carries(msg, text) == text = "" \/ Contains(msg, text)

\* the message holds the position of row i, counted from 0 or from 1
CarriesIndex(msg, i) == Contains(msg, ToString(i - 1)) \/ Contains(msg, ToString(i))

\* the id is one that `row.id || i` prints
PrintableId(row) == Get(row, "id") \notin {Null, Undefined, Str(""), Num("0")}

(***************************************************************************)
(* C15: every row-level error message of schema completeness, of ID        *)
(* uniqueness (the missing-id error included) and of foreign key integrity *)
(* identifies the offending row: it carries the table name and the row's   *)
(* id, or the row's positional index when the row has no id.               *)
(***************************************************************************)
C15_MessagesLocateRow ==
    \A name \in {"Schema completeness", "ID uniqueness", "Foreign key integrity"} :
        \A e \in RowLevel(name) :
            /\ Contains(e.msg, e.table)
            /\ IF HasId(RowOf(e))
               THEN Carries(e.msg, ToStr(RowOf(e)["id"]))
               ELSE CarriesIndex(e.msg, e.row)

\* what the messages do carry: schema completeness the id or else the
\* position counted from 0; a duplicate the id; a missing id the table only;
\* foreign key integrity the text of row.id, "undefined" when there is none
C15_RowReferenceAsCoded ==
    /\ \A e \in RowLevel("Schema completeness") :
           Contains(e.msg, e.table \o " row "
               \o (IF PrintableId(RowOf(e)) THEN ToStr(RowOf(e)["id"])
                   ELSE ToString(e.row - 1)) \o ": missing ")
    /\ \A e \in RowLevel("ID uniqueness") :
           IF PrintableId(RowOf(e))
           THEN e.msg = e.table \o ": duplicate \"" \o ToStr(RowOf(e)["id"]) \o "\""
           ELSE e.msg = e.table \o ": row without \"id\" field"
    /\ \A e \in RowLevel("Foreign key integrity") :
           /\ Contains(e.msg, e.table \o ".")
           /\ Contains(e.msg, " row "
                  \o (IF "id" \in DOMAIN RowOf(e) THEN ToStr(RowOf(e)["id"])
                      ELSE "undefined") \o ": ")


\* a foreign-key error for a row without id has been recorded
C15_AnonymousFkError ==
    \E e \in RowLevel("Foreign key integrity") :
        "id" \notin DOMAIN RowOf(e) /\ Contains(e.msg, " row undefined: ")


(***************************************************************************)
(* The iteration order of the checks: the loaded tables in the order of    *)
(* the table files, the relations in the order of dataset.relations, the   *)
(* rows in the order of table.rows.                                        *)
(***************************************************************************)
\* errs follows the tables, and within a table its rows
InTableRowOrder(errs) ==
    \A p, q \in 1..Len(errs) :
        p < q =>
            /\ Lookup(tables, errs[p].table) <= Lookup(tables, errs[q].table)
            /\ errs[p].table = errs[q].table => errs[p].row <= errs[q].row

\* errs follows the relations, and within a relation the rows of fromTable
InRelationRowOrder(errs) ==
    \A p, q \in 1..Len(errs) :
        p < q =>
            /\ errs[p].rel <= errs[q].rel
            /\ errs[p].rel = errs[q].rel => errs[p].row <= errs[q].row

(***************************************************************************)
(* C16: error ordering is stable.  The errors of schema completeness and   *)
(* of ID uniqueness appear in table iteration order and, within a table,   *)
(* in input row order; the errors of foreign key integrity appear in       *)
(* relation order and, within a relation, in input row order: the error    *)
(* for row i precedes the error for row j whenever i < j.                  *)
(***************************************************************************)
C16_ErrorsInIterationOrder ==
    /\ InTableRowOrder(Recorded("Schema completeness"))
    /\ InTableRowOrder(Recorded("ID uniqueness"))
    /\ InRelationRowOrder(Recorded("Foreign key integrity"))

\* schema completeness recorded errors for two rows of one table and for a
\* second table
C16_Witness ==
    \E p, q, r \in 1..Len(SchemaErrs) :
        /\ SchemaErrs[p].table = SchemaErrs[q].table
        /\ 0 < SchemaErrs[p].row
        /\ SchemaErrs[p].row < SchemaErrs[q].row
        /\ SchemaErrs[r].table # SchemaErrs[p].table

\* foreign key integrity recorded errors for two rows of one relation and
\* for a second relation
C16_TwoRelations ==
    \E p, q, r \in 1..Len(FkErrs) :
        /\ FkErrs[p].rel = FkErrs[q].rel
        /\ 0 < FkErrs[p].row
        /\ FkErrs[p].row < FkErrs[q].row
        /\ FkErrs[r].rel # FkErrs[p].rel


(***************************************************************************)
(* The overlays of a run of the overlay validator, and what its checks     *)
(* recorded for each.                                                      *)
(***************************************************************************)
Overlays == OverlayFiles(overlayDir)

\* $meta.k of overlay o, Undefined when absent
Meta(o, k) == Get(Overlays[o].data.meta, k)

VisErrs == Recorded("Visibility valid, private has clients")

\* the errors the visibility check recorded for overlay o
VisErrsOf(o) == {e \in 1..Len(VisErrs) : VisErrs[e].overlay = o}

\* the visibility check recorded, for overlay o, that clients are missing
ClientsReported(o) ==
    \E e \in VisErrsOf(o) :
        VisErrs[e].msg = Overlays[o].filename
                             \o ": private overlay missing non-empty clients array"

\* $meta.clients of overlay o is an array with at least one entry
HasClients(o) == Meta(o, "clients").t = "array" /\ Meta(o, "clients").items # <<>>

\* $meta of overlay o has no clients property
ClientsAbsent(o) == "clients" \notin DOMAIN Overlays[o].data.meta

IsPrivate(o) == Meta(o, "visibility") = Str("private")

IsPublic(o) == Meta(o, "visibility") = Str("public")

(***************************************************************************)
(* C17 as stated: the visibility check accepts an overlay (records no      *)
(* error for it) if and only if its visibility is private and its clients  *)
(* a non-empty array, or its visibility is public and its clients absent.  *)
(***************************************************************************)
C17_AcceptedIffClientsFitVisibility ==
    Reported("Visibility valid, private has clients") =>
        \A o \in 1..Len(Overlays) :
            VisErrsOf(o) = {}
                <=> \/ IsPrivate(o) /\ HasClients(o)
                    \/ IsPublic(o) /\ ClientsAbsent(o)

(***************************************************************************)
(* C17, amended: the visibility check records a clients error for an       *)
(* overlay if and only if its visibility is private and its clients are    *)
(* not a non-empty array, and records no error at all for a public         *)
(* overlay, with or without clients; an overlay is accepted if and only    *)
(* if it is public, or private with a non-empty clients array.             *)
(***************************************************************************)
C17_ClientsRequiredIffPrivate ==
    Reported("Visibility valid, private has clients") =>
        \A o \in 1..Len(Overlays) :
            /\ ClientsReported(o) <=> IsPrivate(o) /\ ~HasClients(o)
            /\ IsPublic(o) => VisErrsOf(o) = {}
            /\ VisErrsOf(o) = {} <=> IsPublic(o) \/ (IsPrivate(o) /\ HasClients(o))
            /\ Cardinality(VisErrsOf(o)) <= 1

\* a public overlay that names clients has been accepted, beside a private
\* overlay reported for its missing clients
C17_Witness ==
    /\ Reported("Visibility valid, private has clients")
    /\ \E o, p \in 1..Len(Overlays) :
           /\ IsPublic(o) /\ HasClients(o) /\ VisErrsOf(o) = {}
           /\ IsPrivate(p) /\ ~HasClients(p) /\ ClientsReported(p)


NameErrs == Recorded("Filename matches $meta.name")

\* the errors the filename check recorded for overlay o
NameErrsOf(o) == {e \in 1..Len(NameErrs) : NameErrs[e].overlay = o}

\* the file name without its .json extension
Stem(filename) == SubSeq(filename, 1, Len(filename) - Len(".json"))

\* $meta.name of overlay o is the string that is the stem of its file name
NameMatches(o) == Meta(o, "name") = Str(Stem(Overlays[o].filename))

(***************************************************************************)
(* C18: for every overlay file, the filename check reports exactly one     *)
(* error if $meta.name is missing or differs from the file name without    *)
(* its .json extension, and no error if the two are equal.                 *)
(***************************************************************************)
C18_OneErrorUnlessNameMatches ==
    Reported("Filename matches $meta.name") =>
        \A o \in 1..Len(Overlays) :
            /\ Suffix(Overlays[o].filename, ".json")
            /\ Cardinality(NameErrsOf(o)) = (IF NameMatches(o) THEN 0 ELSE 1)
            /\ \A e \in NameErrsOf(o) :
                   Contains(NameErrs[e].msg, Overlays[o].filename \o ": ")

\* an overlay whose name equals the stem of its file passed, beside one
\* named otherwise, reported once
C18_Witness ==
    /\ Reported("Filename matches $meta.name")
    /\ \E o, p \in 1..Len(Overlays) :
           /\ NameMatches(o) /\ NameErrsOf(o) = {}
           /\ Meta(p, "name").t = "string" /\ Meta(p, "name") # Str("")
           /\ ~NameMatches(p)
           /\ Cardinality(NameErrsOf(p)) = 1

\* an overlay whose name is its file name, extension included, has been
\* reported once
C18_ExtensionKept ==
    /\ Reported("Filename matches $meta.name")
    /\ \E o \in 1..Len(Overlays) :
           /\ Meta(o, "name") = Str(Overlays[o].filename)
           /\ Cardinality(NameErrsOf(o)) = 1

\* an overlay without $meta.name has been reported once
C18_MissingName ==
    /\ Reported("Filename matches $meta.name")
    /\ \E o \in 1..Len(Overlays) :
           /\ "name" \notin DOMAIN Overlays[o].data.meta
           /\ Cardinality(NameErrsOf(o)) = 1


(***************************************************************************)
(* The row-count check: the base tables, the fields and values of an       *)
(* overlay, and the errors recorded for an overlay and a table.            *)
(***************************************************************************)
CoverErrs == Recorded("Values >= row count for matching tables")

\* the loaded tables that dataset.json lists
BaseTableIndexes ==
    {t \in 1..Len(tables) : \E k \in 1..Len(dataset.tables) : dataset.tables[k] = tables[t].name}

\* the names in $meta.fields of overlay o
FieldNames(o) ==
    IF Meta(o, "fields").t = "array"
    THEN {Meta(o, "fields").items[i].s : i \in 1..Len(Meta(o, "fields").items)}
    ELSE {}

\* values.length of overlay o, 0 without values
ValueCount(o) ==
    IF Overlays[o].data.values.t = "array" THEN Len(Overlays[o].data.values.items) ELSE 0

\* some row of table t has the field f
SomeRowHas(t, f) == \E i \in 1..Len(tables[t].rows) : f \in DOMAIN tables[t].rows[i]

\* the first row of table t has the field f
FirstRowHas(t, f) == tables[t].rows # <<>> /\ f \in DOMAIN tables[t].rows[1]

\* the message of an insufficiency of overlay o for field f of table t
NeedsMsg(o, t, f) ==
    Overlays[o].filename \o ": needs " \o ToString(Len(tables[t].rows)) \o " values for "
        \o tables[t].name \o "." \o f \o ", has " \o ToString(ValueCount(o))

\* the errors recorded for overlay o and table t
CoverErrsOf(o, t) ==
    {e \in 1..Len(CoverErrs) :
        CoverErrs[e].overlay = o /\ CoverErrs[e].table = tables[t].name}

\* the errors recorded for overlay o, table t and field f
CoverErrsAt(o, t, f) == {e \in CoverErrsOf(o, t) : CoverErrs[e].field = f}

(***************************************************************************)
(* C19: for every overlay and every matching table (a field of the overlay *)
(* occurs in one of its rows) with fewer values than rows, one error is    *)
(* recorded for every matching field, naming the overlay, the table, the   *)
(* field, the rows needed and the values available; the scan goes on over  *)
(* the remaining tables and overlays; and no error is recorded for a       *)
(* matching table with at least as many values as rows.                    *)
(***************************************************************************)
C19_OneErrorPerMatchingField ==
    Reported("Values >= row count for matching tables") =>
        \A o \in 1..Len(Overlays) :
            \A t \in BaseTableIndexes :
                IF ValueCount(o) < Len(tables[t].rows)
                THEN \A f \in FieldNames(o) :
                         SomeRowHas(t, f) =>
                             /\ Cardinality(CoverErrsAt(o, t, f)) = 1
                             /\ \A e \in CoverErrsAt(o, t, f) :
                                    CoverErrs[e].msg = NeedsMsg(o, t, f)
                ELSE CoverErrsOf(o, t) = {}

\* what the check does: the matching fields are those of the first row
C19_OneErrorPerFirstRowField ==
    Reported("Values >= row count for matching tables") =>
        \A o \in 1..Len(Overlays) :
            \A t \in BaseTableIndexes :
                IF ValueCount(o) < Len(tables[t].rows)
                THEN \A f \in FieldNames(o) :
                         /\ Cardinality(CoverErrsAt(o, t, f))
                                = (IF FirstRowHas(t, f) THEN 1 ELSE 0)
                         /\ \A e \in CoverErrsAt(o, t, f) :
                                CoverErrs[e].msg = NeedsMsg(o, t, f)
                ELSE CoverErrsOf(o, t) = {}

\* two overlays are each reported for two tables, one of them for two fields
C19_ScanContinues ==
    /\ Reported("Values >= row count for matching tables")
    /\ \E o, p \in 1..Len(Overlays) :
           \E t, u \in BaseTableIndexes :
               /\ o # p /\ t # u
               /\ CoverErrsOf(o, t) # {} /\ CoverErrsOf(o, u) # {}
               /\ CoverErrsOf(p, t) # {} /\ CoverErrsOf(p, u) # {}
               /\ Cardinality(CoverErrsOf(o, t)) = 2

(***************************************************************************)
(* C20: a table is treated as matching an overlay if and only if at least  *)
(* one of its rows, the first or a later one, contains at least one field  *)
(* named in the overlay's fields, whatever the table's schema; a matching  *)
(* table is one the row-count check reports when the overlay has fewer     *)
(* values than the table has rows.                                         *)
(***************************************************************************)
C20_MatchesOnAnyRow ==
    Reported("Values >= row count for matching tables") =>
        \A o \in 1..Len(Overlays) :
            \A t \in BaseTableIndexes :
                ValueCount(o) < Len(tables[t].rows) =>
                    (CoverErrsOf(o, t) # {}
                     <=> \E f \in FieldNames(o) : SomeRowHas(t, f))

\* what the check does: a table matches on the fields of its first row
C20_MatchesOnFirstRow ==
    Reported("Values >= row count for matching tables") =>
        \A o \in 1..Len(Overlays) :
            \A t \in BaseTableIndexes :
                ValueCount(o) < Len(tables[t].rows) =>
                    (CoverErrsOf(o, t) # {}
                     <=> \E f \in FieldNames(o) : FirstRowHas(t, f))

\* a table whose later rows alone hold a field of the overlay went
\* unreported although the overlay has fewer values than the table has rows
C20_LaterRowIgnored ==
    /\ Reported("Values >= row count for matching tables")
    /\ \E o \in 1..Len(Overlays) :
           \E t \in BaseTableIndexes :
               /\ ValueCount(o) < Len(tables[t].rows)
               /\ \E f \in FieldNames(o) : SomeRowHas(t, f)
               /\ CoverErrsOf(o, t) = {}


(***************************************************************************)
(* What the overlay engine returned.                                       *)
(***************************************************************************)
Returned == pc = "returned"

Succeeded == Returned /\ result.kind = "tables"

FlatStack == \A k \in 1..Len(stack) : stack[k].kind = "flat"

TableIndexes == 1..Len(tables)

RowIndexes(t) == 1..Len(tables[t].rows)

\* the overlay at position k of the stack targets field f of base table t
Targets(k, t, f) ==
    /\ stack[k].kind = "flat"
    /\ \E m \in 1..Len(stack[k].fields) : stack[k].fields[m] = f
    /\ \E r \in RowIndexes(t) : f \in DOMAIN tables[t].rows[r]

TargetedFields == {"firstName", "email", "name", "phone"}

\* the value the overlay at position k assigns to field f of row r of table t
Assignment(k, t, f, r) ==
    Str(Shuffle(stack[k].values, stack[k].name \o ":" \o tables[t].name \o ":" \o f)[r])

\* the returned value of field f of row r of table t
Final(t, f, r) == result.tables[t].rows[r][f]

\* C21: after a successful materialization, where overlays A and B target
\* the same field of the same table and no overlay after B does, every row's
\* value for that field is B's assignment for the row and not A's
C21_LastWriterWins ==
    Succeeded /\ FlatStack =>
        \A t \in TableIndexes, f \in TargetedFields :
            \A a, b \in 1..Len(stack) :
                /\ a < b
                /\ Targets(a, t, f)
                /\ Targets(b, t, f)
                /\ \A c \in (b + 1)..Len(stack) : ~Targets(c, t, f)
                => \A r \in RowIndexes(t) :
                       /\ f \in DOMAIN result.tables[t].rows[r]
                       /\ Final(t, f, r) = Assignment(b, t, f, r)
                       /\ Final(t, f, r) # Assignment(a, t, f, r)

\* two overlays target the first name of two or more users, and the later
\* one does not hand its values out in the order it lists them
C21_Witness ==
    /\ Succeeded
    /\ FlatStack
    /\ \E t \in TableIndexes, a, b \in 1..Len(stack) :
          /\ a < b
          /\ Targets(a, t, "firstName")
          /\ Targets(b, t, "firstName")
          /\ Len(tables[t].rows) >= 2
          /\ \E r \in RowIndexes(t) :
                Final(t, "firstName", r) # Str(stack[b].values[r])

\* three overlays target the same field: the last of them wins over both
C21_Interleaved ==
    /\ Succeeded
    /\ FlatStack
    /\ Len(stack) = 3
    /\ \E t \in TableIndexes :
          /\ Targets(1, t, "email")
          /\ ~Targets(2, t, "email")
          /\ Targets(3, t, "email")
          /\ \A r \in RowIndexes(t) : Final(t, "email", r) = Assignment(3, t, "email", r)


\* the overlay at position k has too few values for base table t, which it
\* targets
Short(k, t) ==
    /\ \E f \in TargetedFields : Targets(k, t, f)
    /\ Len(stack[k].values) < Len(tables[t].rows)

\* the insufficiencies of the whole stack: overlay, table, place of the field
Shortfalls ==
    UNION {{<<k, t, m>> : m \in {n \in 1..Len(stack[k].fields) :
                                    Short(k, t) /\ Targets(k, t, stack[k].fields[n])}}
           : k \in 1..Len(stack), t \in TableIndexes}

ShortfallError(x) ==
    [overlayName |-> stack[x[1]].name, tableName |-> tables[x[2]].name,
     fieldName |-> stack[x[1]].fields[x[3]],
     needed |-> Len(tables[x[2]].rows), available |-> Len(stack[x[1]].values)]

\* C22: the engine returns either the errors of every insufficiency of the
\* stack and no table, or, when there is no insufficiency, a table for every
\* base table and no error
C22_AllOrNothing ==
    Returned /\ FlatStack =>
        IF Shortfalls # {}
        THEN /\ DOMAIN result = {"kind", "errors"}
             /\ result.kind = "errors"
             /\ Len(result.errors) = Cardinality(Shortfalls)
             /\ {result.errors[i] : i \in 1..Len(result.errors)}
                    = {ShortfallError(x) : x \in Shortfalls}
        ELSE /\ DOMAIN result = {"kind", "tables"}
             /\ result.kind = "tables"
             /\ Len(result.tables) = Len(tables)

\* two overlays are insufficient, the second after the first has failed, and
\* a table that every overlay of the stack could fill is not returned
C22_Witness ==
    /\ Returned
    /\ FlatStack
    /\ result.kind = "errors"
    /\ \E i, j \in 1..Len(result.errors) :
          result.errors[i].overlayName # result.errors[j].overlayName
    /\ \E t \in TableIndexes :
          /\ \E k \in 1..Len(stack) : \E f \in TargetedFields : Targets(k, t, f)
          /\ \A k \in 1..Len(stack) : ~Short(k, t)

\* no overlay of the stack is insufficient and some overlay fills a table
C22_Success ==
    /\ Succeeded
    /\ FlatStack
    /\ \E k \in 1..Len(stack), t \in TableIndexes :
          /\ \E f \in TargetedFields : Targets(k, t, f)
          /\ Len(tables[t].rows) >= 2


\* the overlay at position k of the stack writes field f of row r of table t
Touches(k, t, r, f) ==
    IF stack[k].kind = "flat" THEN Targets(k, t, f)
    ELSE /\ stack[k].table = tables[t].name
         /\ "id" \in DOMAIN tables[t].rows[r]
         /\ tables[t].rows[r]["id"].s \in DOMAIN stack[k].overrides
         /\ f \in DOMAIN stack[k].overrides[tables[t].rows[r]["id"].s]

Untouched(t, r, f) == \A k \in 1..Len(stack) : ~Touches(k, t, r, f)

\* the returned tables are the base tables but for the fields the stack writes
FrameKept ==
    Succeeded =>
        /\ Len(result.tables) = Len(tables)
        /\ \A t \in TableIndexes :
              /\ result.tables[t].name = tables[t].name
              /\ Len(result.tables[t].rows) = Len(tables[t].rows)
              /\ \A r \in RowIndexes(t) :
                    /\ \A f \in DOMAIN tables[t].rows[r] :
                          Untouched(t, r, f) =>
                              /\ f \in DOMAIN result.tables[t].rows[r]
                              /\ result.tables[t].rows[r][f] = tables[t].rows[r][f]
                    /\ \A f \in DOMAIN result.tables[t].rows[r] :
                          Untouched(t, r, f) => f \in DOMAIN tables[t].rows[r]
        /\ (stack = <<>> => result.tables = tables)

\* C23: a successful materialization returns, for every base table, the same
\* rows in the same order with every field that no overlay of the stack
\* targets at its base value, the empty stack returns the base tables, and
\* no step of the engine changes the base tables
C23_Frame == []FrameKept /\ [][tables' = tables]_vars

\* a stack has rewritten the first name of two or more users whose ids and
\* emails it does not target
C23_Witness ==
    /\ Succeeded
    /\ stack # <<>>
    /\ \E t \in TableIndexes : \E r \in RowIndexes(t) :
          /\ Len(tables[t].rows) >= 2
          /\ {"id", "firstName", "email"} \subseteq DOMAIN tables[t].rows[r]
          /\ Untouched(t, r, "id")
          /\ Untouched(t, r, "email")
          /\ ~Untouched(t, r, "firstName")
          /\ result.tables[t].rows[r]["firstName"] # tables[t].rows[r]["firstName"]

\* the empty stack returns the base tables
C23_EmptyStack ==
    /\ Succeeded
    /\ stack = <<>>
    /\ \E t \in TableIndexes : Len(tables[t].rows) >= 2
    /\ result.tables = tables


LegacyStack == \A k \in 1..Len(stack) : stack[k].kind = "legacy"

AnyField == TargetedFields \cup {"id"}

\* the positions of the overlays whose overrides give field f to row r of t
Givers(t, r, f) == {k \in 1..Len(stack) : Touches(k, t, r, f)}

Last(S) == CHOOSE k \in S : \A j \in S : j <= k

\* the value the override of the overlay at position k gives field f of row r
Given(k, t, r, f) == stack[k].overrides[tables[t].rows[r]["id"].s][f]

\* C25: after a stack of legacy overlays, every field of every row holds the
\* value of the last overlay whose overrides entry for the row's id contains
\* the field, and its base value (or absence) when no overlay has one
C25_LegacyShallowMerge ==
    Succeeded /\ LegacyStack =>
        \A t \in TableIndexes : \A r \in RowIndexes(t) : \A f \in AnyField :
            LET row == result.tables[t].rows[r]
                base == tables[t].rows[r]
            IN IF Givers(t, r, f) = {}
               THEN /\ f \in DOMAIN row <=> f \in DOMAIN base
                    /\ f \in DOMAIN base => row[f] = base[f]
               ELSE /\ f \in DOMAIN row
                    /\ row[f] = Given(Last(Givers(t, r, f)), t, r, f)

\* two overlays override the first name of a user, the later one wins, and
\* the email neither names keeps its base value
C25_Witness ==
    /\ Succeeded
    /\ LegacyStack
    /\ \E t \in TableIndexes : \E r \in RowIndexes(t) :
          /\ Givers(t, r, "firstName") = {1, 2}
          /\ Given(1, t, r, "firstName") # Given(2, t, r, "firstName")
          /\ result.tables[t].rows[r]["firstName"] = Given(2, t, r, "firstName")
          /\ Givers(t, r, "email") = {}
          /\ result.tables[t].rows[r]["email"] = tables[t].rows[r]["email"]

\* the later overlay has an entry for the row that does not contain the
\* field: the earlier overlay's value stays
C25_EarlierStays ==
    /\ Succeeded
    /\ LegacyStack
    /\ \E t \in TableIndexes : \E r \in RowIndexes(t) :
          /\ Givers(t, r, "firstName") = {1}
          /\ Givers(t, r, "email") = {2}
          /\ result.tables[t].rows[r]["firstName"] = Given(1, t, r, "firstName")

\* a row without an entry in the overrides stays as it is beside one that
\* is overridden
C25_RowWithoutEntry ==
    /\ Succeeded
    /\ LegacyStack
    /\ \E t \in TableIndexes : \E r, q \in RowIndexes(t) :
          /\ \A f \in AnyField : Givers(t, r, f) = {}
          /\ Givers(t, q, "firstName") # {}
          /\ result.tables[t].rows[r] = tables[t].rows[r]
          /\ result.tables[t].rows[q] # tables[t].rows[q]


Relations == 1..Len(dataset.relations)

FromTable(r) == SplitDot(dataset.relations[r].from)[1]

ToTable(r) == SplitDot(dataset.relations[r].to)[1]

\* the first table of relation r that is not loaded
FirstUnloaded(r) == IF FromTable(r) \notin Loaded THEN FromTable(r) ELSE ToTable(r)

\* the positions of errs pushed for relation r
AtRel(errs, r) == {e \in 1..Len(errs) : errs[e].rel = r}

\* C26: foreign key integrity records, for a relation with a table that is
\* not loaded, one error naming the table and nothing about rows, and still
\* checks the rows of the other relations; the run goes on to its summary;
\* relations consistency records nothing for a side whose table is not
\* loaded
C26_UnloadedTableOneError ==
    /\ Reported("Foreign key integrity") =>
          \A r \in Relations :
              IF ~BothLoaded(r)
              THEN /\ Cardinality(AtRel(FkErrs, r)) = 1
                   /\ \A e \in AtRel(FkErrs, r) :
                         /\ FkErrs[e].row = 0
                         /\ Suffix(FkErrs[e].msg,
                                   ": table \"" \o FirstUnloaded(r) \o "\" not loaded")
              ELSE \A i \in 1..Len(FromRows(r)) :
                       (Applies(r, i) /\ ~NullOrAbsent(FromValue(r, i)) /\ ~Targeted(r, i))
                           => Cardinality(AtRelRow(FkErrs, r, i)) = 1
    /\ Reported("Relations consistency") =>
          \A r \in Relations :
              /\ FromTable(r) \notin Loaded
                     => ~\E e \in AtRel(RcErrs, r) : RcErrs[e].table = FromTable(r)
              /\ ToTable(r) \notin Loaded
                     => ~\E e \in AtRel(RcErrs, r) : RcErrs[e].table = ToTable(r)
    /\ (pc = "done" /\ dataset.relations # <<>>) =>
          /\ Reported("Foreign key integrity")
          /\ Reported("Relations consistency")
          /\ Reported("Checksums")

\* the first relation has neither table loaded, the second has both and a
\* dangling row, and the run has ended
C26_Witness ==
    /\ pc = "done"
    /\ Len(dataset.relations) = 2
    /\ FromTable(1) \notin Loaded
    /\ ToTable(1) \notin Loaded
    /\ Cardinality(AtRel(FkErrs, 1)) = 1
    /\ BothLoaded(2)
    /\ \E i \in 1..Len(FromRows(2)) : AtRelRow(FkErrs, 2, i) # {}

\* relations consistency reports the loaded from side and is silent about
\* the to side, whose table is not loaded
C26_LoadedSideOnly ==
    /\ pc = "done"
    /\ \E r \in Relations :
          /\ FromTable(r) \in Loaded
          /\ ToTable(r) \notin Loaded
          /\ \E e \in AtRel(RcErrs, r) : RcErrs[e].table = FromTable(r)
          /\ Cardinality(AtRel(RcErrs, r)) = 1


\* the positions of the rows of table t that have an id
IdRows(t) == {i \in 1..Len(tables[t].rows) : HasId(tables[t].rows[i])}

\* the positions of the duplicate errors of table t
DuplicateErrs(t) ==
    {e \in AtTable(IdErrs, tables[t].name) :
        \E v \in {tables[t].rows[i]["id"] : i \in IdRows(t)} :
            IdErrs[e].msg = tables[t].name \o ": duplicate \"" \o ToStr(v) \o "\""}

\* row i of table t carries an id that an earlier row carries
Repeats(t, i) ==
    /\ i \in IdRows(t)
    /\ \E j \in IdRows(t) : j < i /\ tables[t].rows[j]["id"] = tables[t].rows[i]["id"]

\* C27: for every table, ID uniqueness reports as many duplicate errors as
\* there are rows with an id less the number of distinct ids among them,
\* one at each row that repeats an id and none at a first occurrence
C27_CountsRepeats ==
    Reported("ID uniqueness") =>
        \A t \in 1..Len(tables) :
            /\ Cardinality(DuplicateErrs(t))
                   = Cardinality(IdRows(t))
                         - Cardinality({tables[t].rows[i]["id"] : i \in IdRows(t)})
            /\ \A i \in 1..Len(tables[t].rows) :
                   Cardinality(DuplicateErrs(t) \cap AtTableRow(IdErrs, tables[t].name, i))
                       = IF Repeats(t, i) THEN 1 ELSE 0

\* the ids the truthiness test of the check lets through
TruthyIds(t) == \A i \in IdRows(t) : Truthy(tables[t].rows[i]["id"])

\* the count of C27 in the tables whose ids are all truthy
C27_CountsRepeatsOfTruthyIds ==
    Reported("ID uniqueness") =>
        \A t \in 1..Len(tables) :
            TruthyIds(t) =>
                /\ Cardinality(DuplicateErrs(t))
                       = Cardinality(IdRows(t))
                             - Cardinality({tables[t].rows[i]["id"] : i \in IdRows(t)})
                /\ \A i \in 1..Len(tables[t].rows) :
                       Cardinality(DuplicateErrs(t) \cap AtTableRow(IdErrs, tables[t].name, i))
                           = IF Repeats(t, i) THEN 1 ELSE 0

\* three rows carry the same id: two duplicate errors, at the second and
\* the third
C27_ThreeRowsOneId ==
    /\ Reported("ID uniqueness")
    /\ \E t \in 1..Len(tables) :
          /\ Len(tables[t].rows) = 3
          /\ IdRows(t) = {1, 2, 3}
          /\ Repeats(t, 2)
          /\ Repeats(t, 3)
          /\ tables[t].rows[1]["id"] = tables[t].rows[3]["id"]
          /\ Cardinality(DuplicateErrs(t)) = 2


CsErrs == Recorded("Checksums")

\* the table files found in the data directory
FilesLoaded == {tables[t].file : t \in 1..Len(tables)}

\* the keys of checksums.json
ChecksumKeys == {checksums.keys[k] : k \in 1..Len(checksums.keys)}

\* how many of the errors carry the message
TimesReported(errs, msg) == Cardinality({e \in 1..Len(errs) : errs[e].msg = msg})

ChecksumsPassed == \E k \in 1..Len(passed) : passed[k] = "Checksums"

\* C28: with a checksums file, the check reports one error for each table
\* file without an entry, one for each entry without a table file and
\* nothing else, and passes exactly when the files and the keys are the
\* same set; without a checksums file it passes with no error
C28_ChecksumsBothWays ==
    Reported("Checksums") =>
        IF checksums.exists
        THEN /\ \A f \in FilesLoaded \cup ChecksumKeys :
                   /\ TimesReported(CsErrs, "checksums.json missing entry for " \o f)
                          = IF f \in FilesLoaded \ ChecksumKeys THEN 1 ELSE 0
                   /\ TimesReported(CsErrs, "checksums.json has entry for " \o f
                                                \o " but file not found")
                          = IF f \in ChecksumKeys \ FilesLoaded THEN 1 ELSE 0
             /\ Len(CsErrs) = Cardinality(FilesLoaded \ ChecksumKeys)
                                  + Cardinality(ChecksumKeys \ FilesLoaded)
             /\ ChecksumsPassed <=> FilesLoaded = ChecksumKeys
        ELSE CsErrs = <<>> /\ ChecksumsPassed

\* a table file has no entry and two entries have no table file
C28_Witness ==
    /\ Reported("Checksums")
    /\ checksums.exists
    /\ FilesLoaded \ ChecksumKeys # {}
    /\ Cardinality(ChecksumKeys \ FilesLoaded) = 2
    /\ Len(CsErrs) = 3

\* two table files and their two entries, listed in another order: passed
C28_SameKeys ==
    /\ Reported("Checksums")
    /\ checksums.exists
    /\ Cardinality(FilesLoaded) = 2
    /\ FilesLoaded = ChecksumKeys
    /\ \E t \in 1..Len(tables) : tables[t].file # checksums.keys[t]
    /\ ChecksumsPassed

\* tables are loaded and there is no checksums file: passed
C28_NoChecksumsFile ==
    /\ Reported("Checksums")
    /\ ~checksums.exists
    /\ tables # <<>>
    /\ ChecksumsPassed

====
